---- MODULE Spec2Model ----
(***************************************************************************)
(* Model of the stock-market plugin (src/main.py): the market_ticker loop  *)
(* with its news push, the price engine, the join / buy / sell and display *)
(* command handlers and terminate(), together with the asyncio lock and    *)
(* the JSON files they share.                                              *)
(*                                                                         *)
(* Every `await` of the source is a point where another coroutine may run; *)
(* the code between two awaits is one atomic step.                         *)
(*                                                                         *)
(* Money is a Python float.  It is modelled as a binary floating-point     *)
(* number with a MantissaBits-bit significand (round to nearest, ties to   *)
(* even), counted in units of 0.01; IEEE double is the same format with a  *)
(* 53-bit significand.                                                     *)
(***************************************************************************)
EXTENDS Integers, Sequences, FiniteSets, TLC

\* ------------------------------------------------------------------ bounds
MantissaBits == 8        \* significand width of the modelled float
MaxTicks == 2            \* ticks started by the ticker in the trading runs
MaxCalls == 3            \* commands dispatched in the trading runs
MaxMarketTicks == 3      \* ticks in the market-only runs
MaxHistTicks == 103      \* ticks in the long history runs
MaxViewTicks == 1        \* ticks in the display runs
MaxViewCalls == 3        \* commands dispatched in the display runs
MaxIdTicks == 1          \* ticks in the runs with several identities
MaxIdCalls == 3          \* commands dispatched in those runs
MaxLockTicks == 1        \* ticks in the lock runs
MaxLockCalls == 2        \* commands dispatched in the lock runs
MaxClockTicks == 2       \* ticks in the clock runs
MaxFastTicks == 4        \* ticks in the runs with a zero tick interval
MaxBootTicks == 1        \* ticks in the startup runs
MaxTwinTicks == 4        \* ticks in the twin runs
MaxDiskTicks == 1        \* ticks in the disk runs
MaxCalmTicks == 102      \* ticks in the calm runs
MaxTrendTicks == 3       \* ticks in the trend runs
MaxOrderTicks == 3       \* ticks in the order runs
MaxOrderCalls == 1       \* requests in the order runs
MaxLocalTicks == 3       \* ticks in the local-event runs
MaxFailTicks == 3        \* ticks in the failure runs
MaxFailCalls == 2        \* requests in the failure runs
MaxHoldTicks == 1        \* ticks in the holding runs
MaxHoldCalls == 3        \* requests in the holding runs
MaxDiskCalls == 3        \* commands dispatched in the disk runs
MaxBootCalls == 3        \* commands dispatched in the startup runs
MaxClockCalls == 2       \* commands dispatched in the clock runs

\* ------------------------------------------------------- program constants
CHART_HISTORY_LENGTH == 100
PriceFloor == 1          \* max(0.01, new_price), in units of 0.01

\* ------------------------------------------------------------ float model
Pow2(n) == 2 ^ n

Abs(x) == IF x < 0 THEN -x ELSE x

RECURSIVE BinadeShift(_)
\* number of low-order bits a magnitude n loses in the significand
BinadeShift(n) == IF n < Pow2(MantissaBits) THEN 0 ELSE 1 + BinadeShift(n \div 2)

\* n / m rounded to the nearest integer, ties to even (n >= 0, m > 0)
RoundHalfEven(n, m) ==
    LET q == n \div m
        r == n % m
    IN  IF 2 * r < m THEN q
        ELSE IF 2 * r > m THEN q + 1
        ELSE IF q % 2 = 0 THEN q ELSE q + 1

\* the float nearest to the rational n / d (d > 0)
FloatOf(n, d) ==
    LET a == Abs(n)
        s == BinadeShift(a \div d)
        v == RoundHalfEven(a, d * Pow2(s)) * Pow2(s)
    IN  IF n < 0 THEN -v ELSE v

FAdd(a, b) == FloatOf(a + b, 1)
FSub(a, b) == FloatOf(a - b, 1)
FMul(a, b) == FloatOf(a * b, 1)

\* ------------------------------------------------------------ catalogs
\* Stock catalog (stocks.json): code -> [industry, tags, initial_price]
StockCatalog ==
    [c \in {"GPHM", "QLAI"} |->
        IF c = "GPHM"
        THEN [industry |-> "Med", tags |-> {"Patent", "Drug"}, initial_price |-> 500]
        ELSE [industry |-> "AI", tags |-> {"Cloud"}, initial_price |-> 300]]

OneStockCatalog == [c \in {"GPHM"} |-> StockCatalog[c]]

\* Global event templates (events_global.json); trend_impact in 1/1000
GlobalBoom ==
    [content |-> "boom", affected_industries |-> {"Med"},
     affected_tags |-> {"Patent", "Drug"}, trend_impact |-> 10, duration_ticks |-> 2]

GlobalCrash ==
    [content |-> "crash", affected_industries |-> {"AI"},
     affected_tags |-> {}, trend_impact |-> -1100, duration_ticks |-> 1]

\* a template that names tags only (two of them) and lasts three ticks
GlobalCloud ==
    [content |-> "cloud", affected_industries |-> {},
     affected_tags |-> {"Cloud", "Patent"}, trend_impact |-> -20, duration_ticks |-> 3]

\* JSON null where a list is expected (written as a list holding a word that
\* is no tag)
Null == {"null"}

\* a template whose affected_tags is null: `for tag in affected_tags` raises
\* TypeError for a stock that the industry test does not already accept
GlobalTypo ==
    [content |-> "typo", affected_industries |-> {"Med"},
     affected_tags |-> Null, trend_impact |-> 10, duration_ticks |-> 2]

\* Local event templates (events_local.json); direct_impact_percent in 1/1000
LocalStrike ==
    [content |-> "strike", affected_codes |-> {}, affected_tags |-> {"Patent"},
     direct_impact_percent |-> -120]

\* a local template that names a stock by its code and by one of its tags
LocalRecall ==
    [content |-> "recall", affected_codes |-> {"QLAI"}, affected_tags |-> {"Cloud"},
     direct_impact_percent |-> 50]

\* Values of random.random(), in 1/100
RandomDraws == {5, 95}

\* Values of random.uniform(-v, v): both ends of the range
DriftDraws(v) == IF v = 0 THEN {0} ELSE {-v, v}

\* ------------------------------------------------------------ identities
Groups == {"g1", "g2", "g3"}
TaskIds == {"t1", "t2"}
\* a new handler coroutine takes the first free slot
TaskOrder == [t \in TaskIds |-> IF t = "t1" THEN 1 ELSE 2]

\* Command arguments as typed by the user
CodeInputs == {"gphm", "NOPE"}
AmountInputs == {"0", "1", "2", "x"}

\* str.upper() on the code argument
Upper(code) == IF code = "gphm" THEN "GPHM" ELSE code

\* int(amount_str); "invalid" stands for the ValueError
ParseInt(amount_str) ==
    CASE amount_str = "0" -> 0
      [] amount_str = "1" -> 1
      [] amount_str = "2" -> 2
      [] OTHER -> "invalid"

\* ------------------------------------------------------------ state
VARIABLES
    stocks_data,            \* self.stocks_data
    global_events,          \* self.global_events (sequence of templates)
    local_events,           \* self.local_events (sequence of templates)
    config,                 \* self.config
    stock_prices,           \* self.stock_prices: code -> price
    active_global_events,   \* self.active_global_events: sequence
    price_history,          \* self.price_history: code -> sequence of prices
    playing_groups,         \* self.playing_groups
    files,                  \* user_data/<group>_<user>.json per identity
    lockHolder,             \* who holds self.game_lock ("none" when free)
    lockWaiters,            \* FIFO of coroutines waiting for self.game_lock
    ticker,                 \* the market_ticker coroutine: pc and locals
    game_state_file,        \* content of game_state.json
    tasks,                  \* the command handler coroutines: pc and locals
    ticks,                  \* ticks started so far
    calls,                  \* commands dispatched so far
    now,                    \* time.time(), in whole seconds
    twin                    \* a second run of the ticker, for comparing runs

vars == <<stocks_data, global_events, local_events, config, stock_prices,
          active_global_events, price_history, playing_groups, files,
          game_state_file, lockHolder, lockWaiters, ticker, tasks, ticks, calls,
          now, twin>>

\* what no step of the running program changes (the twin run is not part of
\* the program)
catalogVars == <<stocks_data, global_events, local_events, config, twin>>
marketVars == <<stock_prices, active_global_events, price_history>>
lockVars == <<lockHolder, lockWaiters>>

EmptyStocks == [c \in {} |-> 0]           \* {} as a holdings dict

\* Content of a portfolio file, or what get_user_portfolio returned.
\* state: "nofile" (does not exist), "truncated" (opened with 'w', content
\* not yet written; json.loads fails and load_json_data returns {}),
\* "data" (a portfolio dict)
NoFile == [state |-> "nofile", cash |-> 0, stocks |-> EmptyStocks]
Truncated == [state |-> "truncated", cash |-> 0, stocks |-> EmptyStocks]
PortfolioOf(cash, stocks) == [state |-> "data", cash |-> cash, stocks |-> stocks]

\* no second run
NoTwin ==
    [started |-> FALSE, prices |-> << >>, events |-> << >>, history |-> << >>,
     now |-> 0, ticks |-> 0, rg |-> 0, gi |-> 1]

Codes == DOMAIN stocks_data
Identities == DOMAIN files          \* <<group_id, user_id>> pairs

\* ------------------------------------------------------------ game_lock
\* asyncio.Lock: acquire() returns at once when the lock is free and nobody
\* waits, otherwise the caller queues; release() wakes the first waiter.
LockFree == lockHolder = "none" /\ lockWaiters = << >>

\* mutant: step 4 of the tick runs without taking the lock
TickerEntersUnlocked == TRUE

\* market_ticker, `async with self.game_lock`: step 4 runs at once only when
\* the lock is free
TickerMayEnter == LockFree

\* ------------------------------------------------------------ price engine
RECURSIVE trend_impact_per_tag(_, _)
\* mutant: a matching event is added once per matching tag (and industry)
trend_impact_per_tag(stock, g_events_list) ==
    IF g_events_list = << >> THEN 0
    ELSE LET event == Head(g_events_list)
             hits == (IF stock.industry \in event.affected_industries THEN 1 ELSE 0)
                     + Cardinality(event.affected_tags \cap stock.tags)
         IN  hits * event.trend_impact
             + trend_impact_per_tag(stock, Tail(g_events_list))

RECURSIVE total_trend_impact(_, _)
\* sum of trend_impact over the events of g_events_list that match the stock
total_trend_impact(stock, g_events_list) ==
    IF g_events_list = << >> THEN 0
    ELSE LET event == Head(g_events_list)
             hit == \/ stock.industry \in event.affected_industries
                    \/ event.affected_tags \cap stock.tags # {}
         IN  (IF hit THEN event.trend_impact ELSE 0)
             + total_trend_impact(stock, Tail(g_events_list))

\* mutant: the local event moves every stock
direct_impact_on_all(stock_code, stock, l_event) ==
    IF l_event = << >> THEN 0 ELSE l_event[1].direct_impact_percent

\* direct_impact of calculate_new_price, in 1/1000
\* l_event: << >> (None) or <<template>>
direct_impact(stock_code, stock, l_event) ==
    IF l_event = << >> THEN 0
    ELSE IF \/ stock_code \in l_event[1].affected_codes
            \/ l_event[1].affected_tags \cap stock.tags # {}
         THEN l_event[1].direct_impact_percent
         ELSE 0

PriceFloorOff(new_price) == new_price

\* max(0.01, new_price)
ApplyFloor(new_price) == IF new_price < PriceFloor THEN PriceFloor ELSE new_price

\* mutant: the price is multiplied by the drift instead of 1 + drift
calculate_price_times_drift(stock_code, stock, current_price, g_events_list, l_event, base_drift) ==
    LET total_drift == base_drift + total_trend_impact(stock, g_events_list)
        p1 == FloatOf(current_price * total_drift, 1000)
        p2 == FloatOf(p1 * (1000 + direct_impact(stock_code, stock, l_event)), 1000)
    IN  ApplyFloor(p2)

\* current_price * (1 + total_drift) * (1 + direct_impact), floored
calculate_new_price(stock_code, stock, current_price, g_events_list, l_event, base_drift) ==
    LET total_drift == base_drift + total_trend_impact(stock, g_events_list)
        p1 == FloatOf(current_price * (1000 + total_drift), 1000)
        p2 == FloatOf(p1 * (1000 + direct_impact(stock_code, stock, l_event)), 1000)
    IN  ApplyFloor(p2)

\* ------------------------------------------------------------ market_ticker
\* mutant: the trim keeps the oldest n elements
FirstN(seq, n) ==
    IF Len(seq) <= n THEN seq ELSE SubSeq(seq, 1, n)

\* history_list[-CHART_HISTORY_LENGTH:]
LastN(seq, n) ==
    IF Len(seq) <= n THEN seq ELSE SubSeq(seq, Len(seq) - n + 1, Len(seq))

\* mutant: the first active event is lost in step 1
DecrementedDropsFirst(events) ==
    IF events = << >> THEN << >>
    ELSE [i \in 1..(Len(events) - 1) |->
            [events[i + 1] EXCEPT !.remaining_ticks = events[i + 1].remaining_ticks - 1]]

\* step 1: decrement every active event
Decremented(events) ==
    [i \in 1..Len(events) |->
        [events[i] EXCEPT !.remaining_ticks = events[i].remaining_ticks - 1]]

\* mutant: an event that reached 0 is kept
StillActiveAtZero(event) == event.remaining_ticks >= 0

\* step 1: if event["remaining_ticks"] > 0
StillActive(event) == event.remaining_ticks > 0

\* a template without duration_ticks (step 2 reads it with a default of 1)
GlobalRumor ==
    [content |-> "rumor", affected_industries |-> {"Med"},
     affected_tags |-> {}, trend_impact |-> 5]

\* Whole seconds that pass during `await asyncio.sleep(seconds)`: the sleep
\* lasts at least `seconds`; sleep(0) returns in the same second or the next.
Elapsed(seconds) == IF seconds = 0 THEN {0, 1} ELSE {seconds}

\* f"evt_{int(time.time())}"
Uid(time) == time

\* step 2: {**template, "remaining_ticks": duration_ticks, "uid": ...}
Instantiate(template, time) ==
    [k \in DOMAIN template \cup {"remaining_ticks", "uid"} |->
        CASE k = "uid" -> Uid(time)
          [] k = "remaining_ticks" ->
                IF "duration_ticks" \in DOMAIN template
                THEN template.duration_ticks ELSE 1
          [] OTHER -> template[k]]

\* self.stock_prices.get(code, stock.get("initial_price", 100.0))
CurrentPrice(code) ==
    IF code \in DOMAIN stock_prices THEN stock_prices[code]
    ELSE stocks_data[code].initial_price

\* mutant: the new map carries a code that the catalog does not have
NewPricesWithStranger(events, l_event, drifts) ==
    [code \in Codes \cup {"GONE"} |->
        IF code \in Codes
        THEN calculate_new_price(code, stocks_data[code], CurrentPrice(code),
                                 events, l_event, drifts[code])
        ELSE PriceFloor]

\* the order of self.stocks_data.items(): the order of stocks.json
CatalogOrder == <<"GPHM", "QLAI">>

CodeSeq == SelectSeq(CatalogOrder, LAMBDA code : code \in Codes)

\* calculate_new_price raises TypeError for the stock: the `or` reaches
\* any(... for tag in affected_tags) of an event whose affected_tags is null
StockRaises(stock, events) ==
    \E i \in 1..Len(events) :
       /\ stock.industry \notin events[i].affected_industries
       /\ events[i].affected_tags = Null

\* the loop of step 4 raises at some stock
PriceLoopRaises(events) ==
    \E k \in 1..Len(CodeSeq) : StockRaises(stocks_data[CodeSeq[k]], events)

\* the codes the loop of step 4 has gone through when it raises
CodesBeforeRaise(events) ==
    LET k == CHOOSE k \in 1..Len(CodeSeq) :
                /\ StockRaises(stocks_data[CodeSeq[k]], events)
                /\ \A j \in 1..(k - 1) : ~StockRaises(stocks_data[CodeSeq[j]], events)
    IN  {CodeSeq[j] : j \in 1..(k - 1)}

\* new_prices of step 4
NewPrices(events, l_event, drifts) ==
    [code \in Codes |->
        calculate_new_price(code, stocks_data[code], CurrentPrice(code),
                            events, l_event, drifts[code])]

\* mutant: the price before the tick is what gets appended
NewHistoryOfOldPrices(new_prices) ==
    [code \in (DOMAIN price_history) \cup Codes |->
        IF code \in Codes
        THEN LastN(Append(IF code \in DOMAIN price_history
                          THEN price_history[code] ELSE << >>,
                          CurrentPrice(code)),
                   CHART_HISTORY_LENGTH)
        ELSE price_history[code]]

\* price_history after step 4
NewHistory(new_prices) ==
    [code \in (DOMAIN price_history) \cup Codes |->
        IF code \in Codes
        THEN LastN(Append(IF code \in DOMAIN price_history
                          THEN price_history[code] ELSE << >>,
                          new_prices[code]),
                   CHART_HISTORY_LENGTH)
        ELSE price_history[code]]

\* what save_game_state writes
GameState ==
    [state |-> "data", prices |-> stock_prices,
     active_global_events |-> active_global_events,
     price_history |-> price_history]

TickerIdle ==
    [pc |-> "sleep", triggered_local_event |-> << >>,
     triggered_new_global_events |-> << >>, expired_global_events |-> << >>,
     current |-> "-", pending |-> {}, iter_size |-> 0,
     delivered |-> {}, failed |-> {}]

\* Step 4 up to the await of save_game_state: prices and history are computed
\* for every stock and self.stock_prices is replaced, in one go.
CommitPrices(events, l_event, drifts) ==
    LET new_prices == NewPrices(events, l_event, drifts)
    IN  /\ ~PriceLoopRaises(events)
        /\ stock_prices' = new_prices
        /\ price_history' = NewHistory(new_prices)

\* Step 4 when calculate_new_price raises for some stock: the stocks before
\* it have their new price appended to price_history already (in place),
\* self.stock_prices is not replaced, nothing is saved.
PricesRaise(events, l_event, drifts) ==
    LET new_prices == NewPrices(events, l_event, drifts)
        done == CodesBeforeRaise(events)
        appended == NewHistory(new_prices)
    IN  /\ PriceLoopRaises(events)
        /\ stock_prices' = stock_prices
        /\ price_history' =
              [code \in DOMAIN appended |->
                  IF code \in done THEN appended[code] ELSE price_history[code]]

\* a tick that computes the prices from the list as it was before steps 1-3
TickBeginPricesFirst(bound, rg, gi, rl, li, drifts) ==
    /\ ticker.pc = "sleep"
    /\ ticks < bound
    /\ ticks' = ticks + 1
    /\ now' \in {now + dt : dt \in Elapsed(config.tick_interval)}
    /\ LET dec == Decremented(active_global_events)
           next_active == SelectSeq(dec, StillActive)
           expired == SelectSeq(dec, LAMBDA e : ~StillActive(e))
           trigG == global_events # << >> /\ rg < config.global_event_chance
           newG == IF trigG THEN <<Instantiate(global_events[gi], now')>> ELSE << >>
           trigL == local_events # << >> /\ rl < config.local_event_chance
           l_event == IF trigL THEN <<local_events[li]>> ELSE << >>
           events == next_active \o newG
           locals == [ticker EXCEPT !.triggered_local_event = l_event,
                                    !.triggered_new_global_events = newG,
                                    !.expired_global_events = expired]
       IN  /\ trigG => gi \in 1..Len(global_events)
           /\ ~trigG => gi = 1
           /\ trigL => li \in 1..Len(local_events)
           /\ ~trigL => li = 1
           /\ active_global_events' = events
           /\ IF TickerMayEnter
              THEN /\ drifts \in [Codes -> DriftDraws(config.base_volatility)]
                   /\ CommitPrices(active_global_events, l_event, drifts)
                   /\ lockHolder' = "ticker"
                   /\ lockWaiters' = lockWaiters
                   /\ ticker' = [locals EXCEPT !.pc = "saveOpen"]
              ELSE /\ drifts = [c \in Codes |-> 0]
                   /\ lockWaiters' = Append(lockWaiters, "ticker")
                   /\ lockHolder' = lockHolder
                   /\ ticker' = [locals EXCEPT !.pc = "waitLock"]
                   /\ UNCHANGED <<stock_prices, price_history>>
    /\ UNCHANGED <<catalogVars, playing_groups, files, game_state_file, tasks, calls>>

\* The top of the loop body after the sleep: steps 1-3, then `async with
\* self.game_lock`.  rg, rl are the two random.random() draws, gi, li the
\* random.choice indices, drifts the random.uniform draw per stock (used only
\* when the lock is free and step 4 runs without suspension).
TickBegin(bound, rg, gi, rl, li, drifts) ==
    /\ ticker.pc = "sleep"
    /\ ticks < bound
    /\ ticks' = ticks + 1
    /\ now' \in {now + dt : dt \in Elapsed(config.tick_interval)}
    /\ LET dec == Decremented(active_global_events)
           next_active == SelectSeq(dec, StillActive)
           expired == SelectSeq(dec, LAMBDA e : ~StillActive(e))
           trigG == global_events # << >> /\ rg < config.global_event_chance
           newG == IF trigG THEN <<Instantiate(global_events[gi], now')>> ELSE << >>
           trigL == local_events # << >> /\ rl < config.local_event_chance
           l_event == IF trigL THEN <<local_events[li]>> ELSE << >>
           events == next_active \o newG
           locals == [ticker EXCEPT !.triggered_local_event = l_event,
                                    !.triggered_new_global_events = newG,
                                    !.expired_global_events = expired]
       IN  /\ trigG => gi \in 1..Len(global_events)
           /\ ~trigG => gi = 1
           /\ trigL => li \in 1..Len(local_events)
           /\ ~trigL => li = 1
           /\ active_global_events' = events
           /\ IF TickerMayEnter
              THEN /\ drifts \in [Codes -> DriftDraws(config.base_volatility)]
                   /\ CommitPrices(events, l_event, drifts)
                   /\ lockHolder' = "ticker"
                   /\ lockWaiters' = lockWaiters
                   /\ ticker' = [locals EXCEPT !.pc = "saveOpen"]
              ELSE /\ drifts = [c \in Codes |-> 0]
                   /\ lockWaiters' = Append(lockWaiters, "ticker")
                   /\ lockHolder' = lockHolder
                   /\ ticker' = [locals EXCEPT !.pc = "waitLock"]
                   /\ UNCHANGED <<stock_prices, price_history>>
    /\ UNCHANGED <<catalogVars, playing_groups, files, game_state_file, tasks, calls>>

\* The top of the loop body when the lock is free and step 4 raises: steps
\* 1-3 have replaced self.active_global_events, the exception leaves
\* `async with self.game_lock` and is caught by `except Exception`, which
\* logs it and awaits the cooldown sleep.
TickBeginFails(bound, rg, gi, rl, li, drifts) ==
    /\ ticker.pc = "sleep"
    /\ ticks < bound
    /\ TickerMayEnter
    /\ ticks' = ticks + 1
    /\ now' \in {now + dt : dt \in Elapsed(config.tick_interval)}
    /\ LET dec == Decremented(active_global_events)
           next_active == SelectSeq(dec, StillActive)
           trigG == global_events # << >> /\ rg < config.global_event_chance
           newG == IF trigG THEN <<Instantiate(global_events[gi], now')>> ELSE << >>
           trigL == local_events # << >> /\ rl < config.local_event_chance
           l_event == IF trigL THEN <<local_events[li]>> ELSE << >>
           events == next_active \o newG
       IN  /\ trigG => gi \in 1..Len(global_events)
           /\ ~trigG => gi = 1
           /\ trigL => li \in 1..Len(local_events)
           /\ ~trigL => li = 1
           /\ drifts \in [Codes -> DriftDraws(config.base_volatility)]
           /\ active_global_events' = events
           /\ PricesRaise(events, l_event, drifts)
    /\ ticker' = [TickerIdle EXCEPT !.pc = "cooldown"]
    /\ UNCHANGED <<catalogVars, playing_groups, files, game_state_file, lockVars,
                   tasks, calls>>

\* The ticker is woken as first waiter of the released lock and step 4
\* raises: the lock is released again and the cooldown begins.
TickGrantedFails(drifts) ==
    /\ ticker.pc = "waitLock"
    /\ lockHolder = "none"
    /\ lockWaiters # << >> /\ Head(lockWaiters) = "ticker"
    /\ lockHolder' = "none"
    /\ lockWaiters' = Tail(lockWaiters)
    /\ drifts \in [Codes -> DriftDraws(config.base_volatility)]
    /\ PricesRaise(active_global_events, ticker.triggered_local_event, drifts)
    /\ ticker' = [TickerIdle EXCEPT !.pc = "cooldown"]
    /\ UNCHANGED <<catalogVars, now, active_global_events, playing_groups, files,
                   game_state_file, tasks, ticks, calls>>

\* The ticker is woken as first waiter of the released lock and runs step 4.
TickGranted(drifts) ==
    /\ ticker.pc = "waitLock"
    /\ lockHolder = "none"
    /\ lockWaiters # << >> /\ Head(lockWaiters) = "ticker"
    /\ lockHolder' = "ticker"
    /\ lockWaiters' = Tail(lockWaiters)
    /\ CommitPrices(active_global_events, ticker.triggered_local_event, drifts)
    /\ ticker' = [ticker EXCEPT !.pc = "saveOpen"]
    /\ UNCHANGED <<catalogVars, now, active_global_events, playing_groups, files,
                   game_state_file, tasks, ticks, calls>>

\* save_game_state, first await: aiofiles.open(GAME_STATE_FILE, 'w')
TickSaveOpen ==
    /\ ticker.pc = "saveOpen"
    /\ game_state_file' = [GameState EXCEPT !.state = "truncated"]
    /\ ticker' = [ticker EXCEPT !.pc = "saveWrite"]
    /\ UNCHANGED <<catalogVars, now, marketVars, playing_groups, files, lockVars,
                   tasks, ticks, calls>>

\* one line of the digest per expired, triggered global and local event
NewsItems(t) ==
    Len(t.expired_global_events) + Len(t.triggered_new_global_events)
        + Len(t.triggered_local_event)

\* step 5 reads event['duration_ticks'] of every newly triggered event: a
\* KeyError when the template has none
DigestFails(t) ==
    \E i \in 1..Len(t.triggered_new_global_events) :
       "duration_ticks" \notin DOMAIN t.triggered_new_global_events[i]

\* save_game_state, the write; the lock is released on leaving `async with`;
\* step 5 builds the digest (an error there is caught by `except Exception`:
\* cooldown) and, when there is news, enters push_news_to_groups, whose
\* `for group_id in self.playing_groups` takes its first group and awaits
\* send_message.
TickSaveWrite(first_group) ==
    /\ ticker.pc = "saveWrite"
    /\ game_state_file' = GameState
    /\ lockHolder' = "none"
    /\ lockWaiters' = lockWaiters
    /\ IF config.enable_news_push /\ DigestFails(ticker)
       THEN /\ first_group = "-"
            /\ ticker' = [TickerIdle EXCEPT !.pc = "cooldown"]
       ELSE IF config.enable_news_push /\ NewsItems(ticker) > 0 /\ playing_groups # {}
       THEN /\ first_group \in playing_groups
            /\ ticker' = [ticker EXCEPT !.pc = "push", !.current = first_group,
                                        !.pending = playing_groups \ {first_group},
                                        !.iter_size = Cardinality(playing_groups)]
       ELSE /\ first_group = "-"
            /\ ticker' = TickerIdle
    /\ UNCHANGED <<catalogVars, now, marketVars, playing_groups, files, tasks,
                   ticks, calls>>

\* The `for` of push_news_to_groups asks the set iterator for the next group:
\* RuntimeError when the set changed size since the loop began (not caught in
\* push_news_to_groups, caught by market_ticker: cooldown), the end of the
\* loop and of the tick, or the next send_message.
IterNext(tk, next_group) ==
    IF Cardinality(playing_groups) # tk.iter_size
    THEN [TickerIdle EXCEPT !.pc = "cooldown"]
    ELSE IF tk.pending = {}
    THEN TickerIdle
    ELSE [tk EXCEPT !.pc = "push", !.current = next_group,
                    !.pending = @ \ {next_group}]

\* the groups the iterator may yield next ("-": none)
IterChoices(tk) ==
    IF Cardinality(playing_groups) = tk.iter_size /\ tk.pending # {}
    THEN tk.pending ELSE {"-"}

\* a push whose failed delivery is not caught inside the loop
PushSentUncaught(ok, next_group) ==
    /\ ticker.pc = "push"
    /\ next_group = "-"
    /\ ticker' = IF ok THEN [ticker EXCEPT !.pc = "pushSleep",
                                           !.delivered = @ \cup {ticker.current}]
                  ELSE [TickerIdle EXCEPT !.pc = "cooldown"]
    /\ UNCHANGED <<catalogVars, now, marketVars, playing_groups, files,
                   game_state_file, lockVars, tasks, ticks, calls>>

\* push_news_to_groups: send_message to ticker.current returned (then
\* `await asyncio.sleep(0.5)`) or raised (caught and logged by the
\* `except Exception` inside the loop, which goes on to the next group)
PushSent(ok, next_group) ==
    /\ ticker.pc = "push"
    /\ IF ok
       THEN /\ next_group = "-"
            /\ ticker' = [ticker EXCEPT !.pc = "pushSleep",
                                        !.delivered = @ \cup {ticker.current}]
       ELSE LET tk == [ticker EXCEPT !.failed = @ \cup {ticker.current}]
            IN  /\ next_group \in IterChoices(tk)
                /\ ticker' = IterNext(tk, next_group)
    /\ UNCHANGED <<catalogVars, now, marketVars, playing_groups, files,
                   game_state_file, lockVars, tasks, ticks, calls>>

\* push_news_to_groups: asyncio.sleep(0.5) after a delivery is over
PushSleepDone(next_group) ==
    /\ ticker.pc = "pushSleep"
    /\ next_group \in IterChoices(ticker)
    /\ ticker' = IterNext(ticker, next_group)
    /\ UNCHANGED <<catalogVars, now, marketVars, playing_groups, files,
                   game_state_file, lockVars, tasks, ticks, calls>>

\* a ticker whose loop ends with the cooldown
CooldownDoneEndsLoop ==
    /\ ticker.pc = "cooldown"
    /\ ticker' = [TickerIdle EXCEPT !.pc = "done"]
    /\ now' = now + 60
    /\ UNCHANGED <<catalogVars, marketVars, playing_groups, files,
                   game_state_file, lockVars, tasks, ticks, calls>>

\* except Exception: await asyncio.sleep(60), then the loop goes on
CooldownDone ==
    /\ ticker.pc = "cooldown"
    /\ ticker' = TickerIdle
    /\ now' = now + 60
    /\ UNCHANGED <<catalogVars, marketVars, playing_groups, files,
                   game_state_file, lockVars, tasks, ticks, calls>>

\* market_ticker: `await asyncio.sleep(5)` before the loop
DelayDone ==
    /\ ticker.pc = "delay"
    /\ ticker' = TickerIdle
    /\ now' = now + 5
    /\ UNCHANGED <<catalogVars, marketVars, playing_groups, files,
                   game_state_file, lockVars, tasks, ticks, calls>>

\* a ticker that swallows the cancellation and goes on with its loop
TickCancelledGoesOn ==
    /\ ticker.pc = "cancelled"
    /\ ticker' = TickerIdle
    /\ lockHolder' = IF lockHolder = "ticker" THEN "none" ELSE lockHolder
    /\ lockWaiters' = SelectSeq(lockWaiters, LAMBDA w : w # "ticker")
    /\ UNCHANGED <<catalogVars, now, marketVars, playing_groups, files,
                   game_state_file, tasks, ticks, calls>>

\* The cancelled ticker is resumed: CancelledError is raised at the await it
\* was suspended at.  It leaves `async with self.game_lock` when it was
\* inside, or the queue of the lock when it was waiting, and the task ends
\* (`except asyncio.CancelledError: break`; outside the `try`, in the initial
\* delay and in the cooldown, the error ends the task directly).
TickCancelled ==
    /\ ticker.pc = "cancelled"
    /\ ticker' = [TickerIdle EXCEPT !.pc = "done"]
    /\ lockHolder' = IF lockHolder = "ticker" THEN "none" ELSE lockHolder
    /\ lockWaiters' = SelectSeq(lockWaiters, LAMBDA w : w # "ticker")
    /\ UNCHANGED <<catalogVars, now, marketVars, playing_groups, files,
                   game_state_file, tasks, ticks, calls>>

\* ------------------------------------------------------------ command handlers
IdleTask ==
    [pc |-> "idle", kind |-> "none", id |-> <<"-", "-">>, code |-> "-",
     amount |-> 0, portfolio |-> NoFile, cash |-> 0, held_amount |-> 0,
     current_price |-> 0, total |-> 0, reply |-> "none", report |-> << >>]

IsInt(amount_str) == amount_str \in {"0", "1", "2"}

\* current_holdings.get(code, 0)
Held(stocks, code) == IF code \in DOMAIN stocks THEN stocks[code] ELSE 0

\* current_holdings[code] = current_holdings.get(code, 0) + amount
AddShares(stocks, code, amount) ==
    [c \in (DOMAIN stocks) \cup {code} |->
        IF c = code THEN Held(stocks, code) + amount ELSE stocks[c]]

\* mutant: the entry is kept when it reaches 0
RemoveSharesKeepZero(stocks, code, amount) ==
    [c \in (DOMAIN stocks) \cup {code} |->
        IF c = code THEN Held(stocks, code) - amount ELSE stocks[c]]

\* current_holdings[code] = held_amount - amount; del when it is 0
RemoveShares(stocks, code, amount) ==
    IF Held(stocks, code) - amount = 0
    THEN [c \in (DOMAIN stocks) \ {code} |-> stocks[c]]
    ELSE [c \in (DOMAIN stocks) \cup {code} |->
            IF c = code THEN Held(stocks, code) - amount ELSE stocks[c]]

\* buy_stock: portfolio["cash"] = cash - total_cost and the holding update
BuyApply(portfolio, code, amount, current_price) ==
    PortfolioOf(FSub(portfolio.cash, FMul(current_price, amount)),
                AddShares(portfolio.stocks, code, amount))

\* sell_stock: portfolio["cash"] = cash + total_profit and the holding update
SellApply(portfolio, code, amount, current_price) ==
    PortfolioOf(FAdd(portfolio.cash, FMul(current_price, amount)),
                RemoveShares(portfolio.stocks, code, amount))

\* mutant: the funds check does not end the handler
BuyLockedNoFundsCheck(task) ==
    IF task.code \notin DOMAIN stock_prices
    THEN [task EXCEPT !.pc = "reply", !.reply = "UnknownStock"]
    ELSE LET current_price == stock_prices[task.code]
             total_cost == FMul(current_price, task.amount)
         IN  [task EXCEPT
                 !.pc = "saveOpen",
                 !.current_price = current_price,
                 !.total = total_cost,
                 !.cash = task.portfolio.cash,
                 !.portfolio = BuyApply(task.portfolio, task.code,
                                        task.amount, current_price)]

\* mutant: a code without price is bought at no cost
BuyLockedUnpriced(task) ==
    LET current_price == IF task.code \in DOMAIN stock_prices
                         THEN stock_prices[task.code] ELSE 0
        total_cost == FMul(current_price, task.amount)
        cash == task.portfolio.cash
    IN  IF cash < total_cost
        THEN [task EXCEPT !.pc = "reply", !.reply = "InsufficientFunds",
                          !.current_price = current_price,
                          !.total = total_cost, !.cash = cash]
        ELSE [task EXCEPT
                !.pc = "saveOpen",
                !.current_price = current_price,
                !.total = total_cost,
                !.cash = cash,
                !.portfolio = BuyApply(task.portfolio, task.code,
                                       task.amount, current_price)]

\* buy_stock, the body of `async with self.game_lock` up to its first yield
\* or await
BuyLocked(task) ==
    IF task.code \notin DOMAIN stock_prices
    THEN [task EXCEPT !.pc = "reply", !.reply = "UnknownStock"]
    ELSE LET current_price == stock_prices[task.code]
             total_cost == FMul(current_price, task.amount)
             cash == task.portfolio.cash
         IN  IF cash < total_cost
             THEN [task EXCEPT !.pc = "reply", !.reply = "InsufficientFunds",
                               !.current_price = current_price,
                               !.total = total_cost, !.cash = cash]
             ELSE [task EXCEPT
                     !.pc = "saveOpen",
                     !.current_price = current_price,
                     !.total = total_cost,
                     !.cash = cash,
                     !.portfolio = BuyApply(task.portfolio, task.code,
                                            task.amount, current_price)]

\* mutant: the price check comes before the holdings check
SellLockedPriceFirst(task) ==
    LET held_amount == Held(task.portfolio.stocks, task.code) IN
    IF task.code \notin DOMAIN stock_prices
    THEN [task EXCEPT !.pc = "reply", !.reply = "UnknownStock",
                      !.held_amount = held_amount]
    ELSE IF held_amount < task.amount
    THEN [task EXCEPT !.pc = "reply", !.reply = "InsufficientHoldings",
                      !.held_amount = held_amount]
    ELSE LET current_price == stock_prices[task.code]
             total_profit == FMul(current_price, task.amount)
         IN  [task EXCEPT
                 !.pc = "saveOpen",
                 !.held_amount = held_amount,
                 !.current_price = current_price,
                 !.total = total_profit,
                 !.cash = task.portfolio.cash,
                 !.portfolio = SellApply(task.portfolio, task.code,
                                         task.amount, current_price)]

\* sell_stock, the body of `async with self.game_lock` up to its first yield
\* or await
SellLocked(task) ==
    LET held_amount == Held(task.portfolio.stocks, task.code) IN
    IF held_amount < task.amount
    THEN [task EXCEPT !.pc = "reply", !.reply = "InsufficientHoldings",
                      !.held_amount = held_amount]
    ELSE IF task.code \notin DOMAIN stock_prices
    THEN [task EXCEPT !.pc = "reply", !.reply = "UnknownStock",
                      !.held_amount = held_amount]
    ELSE LET current_price == stock_prices[task.code]
             total_profit == FMul(current_price, task.amount)
         IN  [task EXCEPT
                 !.pc = "saveOpen",
                 !.held_amount = held_amount,
                 !.current_price = current_price,
                 !.total = total_profit,
                 !.cash = task.portfolio.cash,
                 !.portfolio = SellApply(task.portfolio, task.code,
                                         task.amount, current_price)]

EnterLocked(task) == IF task.kind = "buy" THEN BuyLocked(task) ELSE SellLocked(task)

\* A command is dispatched and its handler runs up to its first suspension.
\* get_user_portfolio returns None at once when the file does not exist:
\* join_game then goes on into create_user_portfolio (exists() is false) and
\* starts saving the new portfolio; buy and sell reply "not joined".
Call(bound, t, kind, id, code, amount_str) ==
    /\ tasks[t].pc = "idle"
    /\ \A u \in TaskIds : tasks[u].pc = "idle" => TaskOrder[t] <= TaskOrder[u]
    /\ calls < bound
    /\ calls' = calls + 1
    /\ kind = "join" => code = "-" /\ amount_str = "0"
    /\ kind # "join" => code \in CodeInputs
    /\ LET task == [IdleTask EXCEPT !.kind = kind, !.id = id, !.code = code,
                        !.amount = IF IsInt(amount_str) THEN ParseInt(amount_str) ELSE 0]
       IN  tasks' = [tasks EXCEPT ![t] =
              IF files[id].state = "nofile"
              THEN IF kind = "join"
                   THEN [task EXCEPT !.pc = "saveOpen",
                            !.portfolio = PortfolioOf(config.starting_cash, EmptyStocks)]
                   ELSE [task EXCEPT !.pc = "reply", !.reply = "NotJoined"]
              ELSE [task EXCEPT !.pc = "load"]]
    /\ UNCHANGED <<catalogVars, now, marketVars, playing_groups, files,
                   game_state_file, lockVars, ticker, ticks>>

\* get_user_portfolio returns what the file holds now ({} when json.loads
\* fails), and the handler runs on to its next suspension: join_game replies
\* "already joined" or enters create_user_portfolio (the file exists: it is
\* loaded once more); buy and sell validate the amount, upper-case the code
\* and enter `async with self.game_lock`.
LoadDone(t) ==
    /\ tasks[t].pc = "load"
    /\ LET task == tasks[t]
           portfolio == files[task.id]
           loaded == [task EXCEPT !.portfolio = portfolio, !.code = Upper(task.code)]
       IN  IF task.kind = "join"
           THEN /\ tasks' = [tasks EXCEPT ![t] =
                      IF portfolio.state = "data"
                      THEN [task EXCEPT !.pc = "reply", !.reply = "AlreadyJoined"]
                      ELSE [task EXCEPT !.pc = "load2"]]
                /\ UNCHANGED lockVars
           ELSE IF portfolio.state # "data"
           THEN /\ tasks' = [tasks EXCEPT ![t] =
                      [task EXCEPT !.pc = "reply", !.reply = "NotJoined"]]
                /\ UNCHANGED lockVars
           ELSE IF task.amount <= 0
           THEN /\ tasks' = [tasks EXCEPT ![t] =
                      [loaded EXCEPT !.pc = "reply", !.reply = "InvalidQuantity",
                                     !.code = task.code]]
                /\ UNCHANGED lockVars
           ELSE IF LockFree
           THEN /\ tasks' = [tasks EXCEPT ![t] = EnterLocked(loaded)]
                /\ lockHolder' = t
                /\ lockWaiters' = lockWaiters
           ELSE /\ tasks' = [tasks EXCEPT ![t] = [loaded EXCEPT !.pc = "waitLock"]]
                /\ lockWaiters' = Append(lockWaiters, t)
                /\ lockHolder' = lockHolder
    /\ UNCHANGED <<catalogVars, now, marketVars, playing_groups, files,
                   game_state_file, ticker, ticks, calls>>

\* The handler is woken as first waiter of the released lock.
Granted(t) ==
    /\ tasks[t].pc = "waitLock"
    /\ lockHolder = "none"
    /\ lockWaiters # << >> /\ Head(lockWaiters) = t
    /\ lockHolder' = t
    /\ lockWaiters' = Tail(lockWaiters)
    /\ tasks' = [tasks EXCEPT ![t] = EnterLocked(tasks[t])]
    /\ UNCHANGED <<catalogVars, now, marketVars, playing_groups, files,
                   game_state_file, ticker, ticks, calls>>

\* save_json_data, first await: aiofiles.open(file_path, 'w') creates or
\* truncates the portfolio file
SaveOpen(t) ==
    /\ tasks[t].pc = "saveOpen"
    /\ files' = [files EXCEPT ![tasks[t].id] = Truncated]
    /\ tasks' = [tasks EXCEPT ![t].pc = "saveWrite"]
    /\ UNCHANGED <<catalogVars, now, marketVars, playing_groups, game_state_file,
                   lockVars, ticker, ticks, calls>>

\* register_group up to its await, or the reply when the group is known
Registered(task) ==
    IF task.id[1] \in playing_groups
    THEN [task EXCEPT !.pc = "reply", !.reply = "JoinOK"]
    ELSE [task EXCEPT !.pc = "regSave"]

\* mutant: the portfolio file is named after the user alone
SaveWriteForUser(t) ==
    /\ tasks[t].pc = "saveWrite"
    /\ files' = [id \in DOMAIN files |->
                    IF id[2] = tasks[t].id[2] THEN tasks[t].portfolio ELSE files[id]]
    /\ IF tasks[t].kind = "join"
       THEN /\ tasks' = [tasks EXCEPT ![t] = Registered(tasks[t])]
            /\ playing_groups' = playing_groups \cup {tasks[t].id[1]}
       ELSE /\ tasks' = [tasks EXCEPT ![t] =
                  [tasks[t] EXCEPT !.pc = "reply",
                      !.reply = IF tasks[t].kind = "buy" THEN "BuyOK" ELSE "SellOK"]]
            /\ UNCHANGED playing_groups
    /\ UNCHANGED <<catalogVars, now, marketVars, game_state_file, lockVars, ticker,
                   ticks, calls>>

\* save_json_data, the write: the file holds the handler's portfolio.  A
\* trade then yields its success reply (still inside the lock); join_game
\* goes on to register_group.
SaveWrite(t) ==
    /\ tasks[t].pc = "saveWrite"
    /\ files' = [files EXCEPT ![tasks[t].id] = tasks[t].portfolio]
    /\ IF tasks[t].kind = "join"
       THEN /\ tasks' = [tasks EXCEPT ![t] = Registered(tasks[t])]
            /\ playing_groups' = playing_groups \cup {tasks[t].id[1]}
       ELSE /\ tasks' = [tasks EXCEPT ![t] =
                  [tasks[t] EXCEPT !.pc = "reply",
                      !.reply = IF tasks[t].kind = "buy" THEN "BuyOK" ELSE "SellOK"]]
            /\ UNCHANGED playing_groups
    /\ UNCHANGED <<catalogVars, now, marketVars, game_state_file, lockVars, ticker,
                   ticks, calls>>

\* The handler after save_json_data returned without having written: a trade
\* yields its success reply, join_game goes on to register_group.
SaveReturns(t) ==
    IF tasks[t].kind = "join"
    THEN /\ tasks' = [tasks EXCEPT ![t] = Registered(tasks[t])]
         /\ playing_groups' = playing_groups \cup {tasks[t].id[1]}
    ELSE /\ tasks' = [tasks EXCEPT ![t] =
               [tasks[t] EXCEPT !.pc = "reply",
                   !.reply = IF tasks[t].kind = "buy" THEN "BuyOK" ELSE "SellOK"]]
         /\ UNCHANGED playing_groups

\* save_json_data: aiofiles.open raises (e.g. OSError); `except Exception`
\* logs it and the file is as it was
SaveOpenFails(t) ==
    /\ tasks[t].pc = "saveOpen"
    /\ SaveReturns(t)
    /\ UNCHANGED <<catalogVars, now, marketVars, files, game_state_file, lockVars,
                   ticker, ticks, calls>>

\* a failed write that is not caught: the handler ends with the exception,
\* leaving `async with self.game_lock`, and yields no reply
SaveWriteFailsRaises(t) ==
    /\ tasks[t].pc = "saveWrite"
    /\ tasks' = [tasks EXCEPT ![t] = IdleTask]
    /\ lockHolder' = IF lockHolder = t THEN "none" ELSE lockHolder
    /\ lockWaiters' = lockWaiters
    /\ UNCHANGED <<catalogVars, now, marketVars, playing_groups, files,
                   game_state_file, ticker, ticks, calls>>

\* save_json_data: the write raises after the file was opened; `except
\* Exception` logs it and the file stays truncated
SaveWriteFails(t) ==
    /\ tasks[t].pc = "saveWrite"
    /\ SaveReturns(t)
    /\ UNCHANGED <<catalogVars, now, marketVars, files, game_state_file, lockVars,
                   ticker, ticks, calls>>

\* create_user_portfolio found the file and loaded it again: join_game
\* registers the group and reports success with the loaded cash, or reports
\* failure when the load gave {}.
Load2Done(t) ==
    /\ tasks[t].pc = "load2"
    /\ LET portfolio == files[tasks[t].id] IN
       IF portfolio.state = "data"
       THEN /\ tasks' = [tasks EXCEPT ![t] =
                  Registered([tasks[t] EXCEPT !.portfolio = portfolio])]
            /\ playing_groups' = playing_groups \cup {tasks[t].id[1]}
       ELSE /\ tasks' = [tasks EXCEPT ![t] =
                  [tasks[t] EXCEPT !.pc = "reply", !.reply = "JoinFailed"]]
            /\ UNCHANGED playing_groups
    /\ UNCHANGED <<catalogVars, now, marketVars, files, game_state_file, lockVars,
                   ticker, ticks, calls>>

\* register_group: the save of playing_groups.json ends
RegSaveDone(t) ==
    /\ tasks[t].pc = "regSave"
    /\ tasks' = [tasks EXCEPT ![t] = [tasks[t] EXCEPT !.pc = "reply", !.reply = "JoinOK"]]
    /\ UNCHANGED <<catalogVars, now, marketVars, playing_groups, files,
                   game_state_file, lockVars, ticker, ticks, calls>>

\* mutant: the handler returns without leaving `async with self.game_lock`
ReplyDoneKeepsLock(t) ==
    /\ tasks[t].pc = "reply"
    /\ tasks' = [tasks EXCEPT ![t] = IdleTask]
    /\ UNCHANGED <<catalogVars, now, marketVars, playing_groups, files,
                   game_state_file, lockVars, ticker, ticks, calls>>

\* The reply was delivered and the generator is resumed: it returns, leaving
\* `async with self.game_lock` when it was inside.
ReplyDone(t) ==
    /\ tasks[t].pc = "reply"
    /\ tasks' = [tasks EXCEPT ![t] = IdleTask]
    /\ lockHolder' = IF lockHolder = t THEN "none" ELSE lockHolder
    /\ lockWaiters' = lockWaiters
    /\ UNCHANGED <<catalogVars, now, marketVars, playing_groups, files,
                   game_state_file, ticker, ticks, calls>>

\* ------------------------------------------------------------ display requests
Views == {"news", "market", "detail", "portfolio"}

\* total_stock_value of view_portfolio: the sum of price * amount over the
\* holdings, 0.0 for a code without price
RECURSIVE StockValue(_, _)
StockValue(holdings, codes) ==
    IF codes = {} THEN 0
    ELSE LET code == CHOOSE c \in codes : TRUE
             current_price == IF code \in DOMAIN stock_prices
                              THEN stock_prices[code] ELSE 0
         IN  FAdd(StockValue(holdings, codes \ {code}),
                  FMul(current_price, holdings[code]))

\* what the report of a display request is built from
ReportOf(task) ==
    CASE task.kind = "news" ->
            [events |-> active_global_events]
      [] task.kind = "market" ->
            [events |-> active_global_events,
             prices |-> [c \in (DOMAIN stock_prices) \cap Codes |-> stock_prices[c]]]
      [] task.kind = "detail" ->
            [current_price |-> IF task.code \in DOMAIN stock_prices
                               THEN stock_prices[task.code] ELSE 0,
             price_history |-> IF task.code \in DOMAIN price_history
                               THEN price_history[task.code] ELSE << >>]
      [] task.kind = "portfolio" ->
            [cash |-> task.portfolio.cash,
             total_assets |->
                FAdd(task.portfolio.cash,
                     StockValue(task.portfolio.stocks, DOMAIN task.portfolio.stocks))]

\* The body of `async with self.game_lock` of a display request up to its
\* first await or yield: view_stock_detail yields inside it for an unknown
\* code
ViewLocked(task) ==
    IF task.kind = "detail" /\ task.code \notin Codes
    THEN [task EXCEPT !.pc = "reply", !.reply = "UnknownStock"]
    ELSE [task EXCEPT !.pc = "render", !.report = <<ReportOf(task)>>]

\* The lock after ViewLocked: view_market and view_portfolio render and reply
\* inside `async with self.game_lock`; view_stock_detail has left it again
\* when it goes on to render.
HolderAfterViewLocked(t, task) ==
    IF task.kind = "detail" /\ task.code \in Codes THEN "none" ELSE t

\* `async with self.game_lock` of a display request: entered at once when the
\* lock is free, else the handler queues
ViewAcquire(t, task) ==
    IF LockFree
    THEN /\ tasks' = [tasks EXCEPT ![t] = ViewLocked(task)]
         /\ lockHolder' = HolderAfterViewLocked(t, task)
         /\ lockWaiters' = lockWaiters
    ELSE /\ tasks' = [tasks EXCEPT ![t] = [task EXCEPT !.pc = "viewWaitLock"]]
         /\ lockWaiters' = Append(lockWaiters, t)
         /\ lockHolder' = lockHolder

\* A display command is dispatched and its handler runs up to its first
\* suspension: get_news builds its report without the lock and awaits
\* text_to_image; view_market and view_stock_detail go for the lock;
\* view_portfolio loads the portfolio first.
ViewCall(bound, t, kind, id, code) ==
    /\ tasks[t].pc = "idle"
    /\ \A u \in TaskIds : tasks[u].pc = "idle" => TaskOrder[t] <= TaskOrder[u]
    /\ calls < bound
    /\ calls' = calls + 1
    /\ kind \in Views
    /\ kind # "detail" => code = "-"
    /\ kind = "detail" => code \in CodeInputs
    /\ LET task == [IdleTask EXCEPT !.kind = kind, !.id = id, !.code = Upper(code)]
       IN  CASE kind = "news" ->
                  /\ tasks' = [tasks EXCEPT ![t] =
                        [task EXCEPT !.pc = "render", !.report = <<ReportOf(task)>>]]
                  /\ UNCHANGED lockVars
             [] kind = "market" ->
                  IF DOMAIN stock_prices = {}
                  THEN /\ tasks' = [tasks EXCEPT ![t] =
                             [task EXCEPT !.pc = "reply", !.reply = "NotOpen"]]
                       /\ UNCHANGED lockVars
                  ELSE ViewAcquire(t, task)
             [] kind = "detail" -> ViewAcquire(t, task)
             [] kind = "portfolio" ->
                  /\ tasks' = [tasks EXCEPT ![t] =
                        IF files[id].state = "nofile"
                        THEN [task EXCEPT !.pc = "reply", !.reply = "NotJoined"]
                        ELSE [task EXCEPT !.pc = "viewLoad"]]
                  /\ UNCHANGED lockVars
    /\ UNCHANGED <<catalogVars, now, marketVars, playing_groups, files,
                   game_state_file, ticker, ticks>>

\* view_portfolio: get_user_portfolio returned
ViewLoadDone(t) ==
    /\ tasks[t].pc = "viewLoad"
    /\ LET portfolio == files[tasks[t].id] IN
       IF portfolio.state # "data"
       THEN /\ tasks' = [tasks EXCEPT ![t] =
                  [tasks[t] EXCEPT !.pc = "reply", !.reply = "NotJoined"]]
            /\ UNCHANGED lockVars
       ELSE ViewAcquire(t, [tasks[t] EXCEPT !.portfolio = portfolio])
    /\ UNCHANGED <<catalogVars, now, marketVars, playing_groups, files,
                   game_state_file, ticker, ticks, calls>>

\* The display request is woken as first waiter of the released lock.
ViewGranted(t) ==
    /\ tasks[t].pc = "viewWaitLock"
    /\ lockHolder = "none"
    /\ lockWaiters # << >> /\ Head(lockWaiters) = t
    /\ lockHolder' = HolderAfterViewLocked(t, tasks[t])
    /\ lockWaiters' = Tail(lockWaiters)
    /\ tasks' = [tasks EXCEPT ![t] = ViewLocked(tasks[t])]
    /\ UNCHANGED <<catalogVars, now, marketVars, playing_groups, files,
                   game_state_file, ticker, ticks, calls>>

\* mutant: the report loop of a display request writes remaining_ticks
RenderDoneAgesEvents(t, ok) ==
    /\ tasks[t].pc = "render"
    /\ tasks' = [tasks EXCEPT ![t] =
          [tasks[t] EXCEPT !.pc = "reply",
              !.reply = IF ok THEN "Image"
                        ELSE IF tasks[t].kind = "detail" THEN "RenderError"
                        ELSE "Text"]]
    /\ active_global_events' = Decremented(active_global_events)
    /\ UNCHANGED <<catalogVars, now, stock_prices, price_history, playing_groups,
                   files, game_state_file, lockVars, ticker, ticks, calls>>

\* text_to_image / html_render returned or raised: the handler yields the
\* image, or the plain text (view_stock_detail: an error text) from its
\* `except Exception`
RenderDone(t, ok) ==
    /\ tasks[t].pc = "render"
    /\ tasks' = [tasks EXCEPT ![t] =
          [tasks[t] EXCEPT !.pc = "reply",
              !.reply = IF ok THEN "Image"
                        ELSE IF tasks[t].kind = "detail" THEN "RenderError"
                        ELSE "Text"]]
    /\ UNCHANGED <<catalogVars, now, marketVars, playing_groups, files,
                   game_state_file, lockVars, ticker, ticks, calls>>

\* ------------------------------------------------------------ terminate
\* terminate() up to its first suspension: running_task.cancel() marks the
\* ticker, then save_game_state awaits aiofiles.open.  The report field
\* records the await the ticker was suspended at.
Terminate(t) ==
    /\ tasks[t].pc = "idle"
    /\ \A u \in TaskIds : tasks[u].pc = "idle" => TaskOrder[t] <= TaskOrder[u]
    /\ ticker.pc \notin {"cancelled", "done"}
    /\ ticker' = [ticker EXCEPT !.pc = "cancelled"]
    /\ tasks' = [tasks EXCEPT ![t] =
          [IdleTask EXCEPT !.kind = "terminate", !.pc = "stateOpen",
                           !.report = <<[at |-> ticker.pc]>>]]
    /\ UNCHANGED <<catalogVars, now, marketVars, playing_groups, files,
                   game_state_file, lockVars, ticks, calls>>

\* terminate(): save_game_state, aiofiles.open(GAME_STATE_FILE, 'w')
StateOpen(t) ==
    /\ tasks[t].pc = "stateOpen"
    /\ game_state_file' = [GameState EXCEPT !.state = "truncated"]
    /\ tasks' = [tasks EXCEPT ![t].pc = "stateWrite"]
    /\ UNCHANGED <<catalogVars, now, marketVars, playing_groups, files,
                   lockVars, ticker, ticks, calls>>

\* terminate(): save_game_state, the write of json.dumps(state); terminate
\* returns
StateWrite(t) ==
    /\ tasks[t].pc = "stateWrite"
    /\ game_state_file' = GameState
    /\ tasks' = [tasks EXCEPT ![t].pc = "terminated"]
    /\ UNCHANGED <<catalogVars, now, marketVars, playing_groups, files,
                   lockVars, ticker, ticks, calls>>

\* ------------------------------------------------------------ initial states
DefaultConfig ==
    [tick_interval |-> 300, global_event_chance |-> 10, local_event_chance |-> 15,
     base_volatility |-> 30, starting_cash |-> 1488, enable_news_push |-> TRUE]

\* initialize_plugin on a first run: prices and history from initial_price,
\* state saved, ticker started
FirstRun(catalog, g_events, l_events, cfg, ids) ==
    /\ stocks_data = catalog
    /\ global_events = g_events
    /\ local_events = l_events
    /\ config = cfg
    /\ stock_prices = [c \in DOMAIN catalog |-> catalog[c].initial_price]
    /\ active_global_events = << >>
    /\ price_history = [c \in DOMAIN catalog |-> <<catalog[c].initial_price>>]
    /\ playing_groups = {}
    /\ files = [id \in ids |-> NoFile]
    /\ game_state_file =
         [state |-> "data",
          prices |-> [c \in DOMAIN catalog |-> catalog[c].initial_price],
          active_global_events |-> << >>,
          price_history |-> [c \in DOMAIN catalog |-> <<catalog[c].initial_price>>]]
    /\ lockHolder = "none"
    /\ lockWaiters = << >>
    /\ ticker = TickerIdle
    /\ tasks = [t \in TaskIds |-> IdleTask]
    /\ ticks = 0
    /\ calls = 0
    /\ now = 0
    /\ twin = NoTwin

AllDrifts == [Codes -> DriftDraws(config.base_volatility)]

TickerNext(bound) ==
    \/ \E rg \in RandomDraws, rl \in RandomDraws, gi \in 1..2, li \in 1..2,
          drifts \in AllDrifts \cup {[c \in Codes |-> 0]} :
          TickBegin(bound, rg, gi, rl, li, drifts)
    \/ \E drifts \in AllDrifts : TickGranted(drifts)
    \/ TickSaveOpen
    \/ \E g \in Groups \cup {"-"} : TickSaveWrite(g)

HandlerNext(bound) ==
    \/ \E t \in TaskIds, kind \in {"join", "buy", "sell"}, id \in Identities,
          code \in CodeInputs \cup {"-"}, amount_str \in AmountInputs :
          Call(bound, t, kind, id, code, amount_str)
    \/ \E t \in TaskIds : LoadDone(t)
    \/ \E t \in TaskIds : Granted(t)
    \/ \E t \in TaskIds : SaveOpen(t)
    \/ \E t \in TaskIds : SaveWrite(t)
    \/ \E t \in TaskIds : Load2Done(t)
    \/ \E t \in TaskIds : RegSaveDone(t)
    \/ \E t \in TaskIds : ReplyDone(t)

\* Trading runs: the handlers and the ticker, no events, news push off
InitTrade ==
    FirstRun(OneStockCatalog, << >>, << >>,
             [DefaultConfig EXCEPT !.enable_news_push = FALSE],
             {<<"g1", "u1">>})

NextTrade == TickerNext(MaxTicks) \/ HandlerNext(MaxCalls)

Spec == InitTrade /\ [][NextTrade]_vars

\* Market runs: the ticker alone on the two-stock catalog with events
InitMarket ==
    FirstRun(StockCatalog, <<GlobalBoom, GlobalCrash>>, <<LocalStrike>>,
             DefaultConfig, {})

\* without handlers the lock is always free: the ticker never waits for it
TickerAlone(bound) ==
    \/ \E rg \in RandomDraws, rl \in RandomDraws, gi \in 1..2, li \in 1..2,
          drifts \in AllDrifts :
          TickBegin(bound, rg, gi, rl, li, drifts)
    \/ TickSaveOpen
    \/ TickSaveWrite("-")

NextMarket == TickerAlone(MaxMarketTicks)

SpecMarket == InitMarket /\ [][NextMarket]_vars

\* History runs: one stock, no drift, a global event triggered in every tick
InitHist ==
    FirstRun(OneStockCatalog, <<GlobalBoom>>, << >>,
             [DefaultConfig EXCEPT !.base_volatility = 0,
                                   !.global_event_chance = 100,
                                   !.local_event_chance = 0],
             {})

NextHist == TickerAlone(MaxHistTicks)

SpecHist == InitHist /\ [][NextHist]_vars

\* Display runs: the ticker with one global event template, join, buy and the
\* display requests of one identity
InitViews ==
    FirstRun(OneStockCatalog, <<GlobalBoom>>, << >>,
             [DefaultConfig EXCEPT !.enable_news_push = FALSE,
                                   !.base_volatility = 0],
             {<<"g1", "u1">>})

ViewNext(bound) ==
    \/ \E t \in TaskIds, kind \in Views, id \in Identities,
          code \in CodeInputs \cup {"-"} :
          ViewCall(bound, t, kind, id, code)
    \/ \E t \in TaskIds : ViewLoadDone(t)
    \/ \E t \in TaskIds : ViewGranted(t)
    \/ \E t \in TaskIds, ok \in BOOLEAN : RenderDone(t, ok)

\* join, a buy and a sell of one share, and the steps of the trade handlers
TradeNext(bound) ==
    \/ \E t \in TaskIds, id \in Identities : Call(bound, t, "join", id, "-", "0")
    \/ \E t \in TaskIds, id \in Identities : Call(bound, t, "buy", id, "gphm", "1")
    \/ \E t \in TaskIds, id \in Identities : Call(bound, t, "sell", id, "gphm", "1")
    \/ \E t \in TaskIds : LoadDone(t)
    \/ \E t \in TaskIds : Granted(t)
    \/ \E t \in TaskIds : SaveOpen(t)
    \/ \E t \in TaskIds : SaveWrite(t)
    \/ \E t \in TaskIds : Load2Done(t)
    \/ \E t \in TaskIds : RegSaveDone(t)
    \/ \E t \in TaskIds : ReplyDone(t)

NextViews ==
    TickerNext(MaxViewTicks) \/ ViewNext(MaxViewCalls) \/ TradeNext(MaxViewCalls)

SpecViews == InitViews /\ [][NextViews]_vars

\* A later run: the state files of an earlier run are loaded, in which the
\* identities of `ids` have joined and those of `fresh` have not; the ticker
\* is in its initial delay
LaterRun(catalog, g_events, l_events, cfg, ids, fresh) ==
    /\ stocks_data = catalog
    /\ global_events = g_events
    /\ local_events = l_events
    /\ config = cfg
    /\ stock_prices = [c \in DOMAIN catalog |-> catalog[c].initial_price]
    /\ active_global_events = << >>
    /\ price_history = [c \in DOMAIN catalog |-> <<catalog[c].initial_price>>]
    /\ playing_groups = {id[1] : id \in ids}
    /\ files = [id \in ids \cup fresh |->
                   IF id \in ids THEN PortfolioOf(cfg.starting_cash, EmptyStocks)
                   ELSE NoFile]
    /\ game_state_file =
         [state |-> "data",
          prices |-> [c \in DOMAIN catalog |-> catalog[c].initial_price],
          active_global_events |-> << >>,
          price_history |-> [c \in DOMAIN catalog |-> <<catalog[c].initial_price>>]]
    /\ lockHolder = "none"
    /\ lockWaiters = << >>
    /\ ticker = [TickerIdle EXCEPT !.pc = "delay"]
    /\ tasks = [t \in TaskIds |-> IdleTask]
    /\ ticks = 0
    /\ calls = 0
    /\ now = 0
    /\ twin = NoTwin

\* Lock runs: the ticker and the requests that take the game lock, for an
\* identity that has joined
InitLock ==
    LaterRun(OneStockCatalog, << >>, << >>,
             [DefaultConfig EXCEPT !.enable_news_push = FALSE,
                                   !.base_volatility = 0],
             {<<"g1", "u1">>}, {})

\* the ticker of the lock runs
LockTicker ==
    \/ DelayDone
    \/ TickBegin(MaxLockTicks, 95, 1, 95, 1, [c \in Codes |-> 0])
    \/ TickGranted([c \in Codes |-> 0])
    \/ TickSaveOpen
    \/ TickSaveWrite("-")

\* every await of handler t returns: the steps that resume the coroutine
Resume(t) ==
    \/ LoadDone(t) \/ Granted(t) \/ SaveOpen(t) \/ SaveWrite(t) \/ ReplyDone(t)
    \/ ViewLoadDone(t) \/ ViewGranted(t) \/ \E ok \in BOOLEAN : RenderDone(t, ok)

LockCalls ==
    \/ \E t \in TaskIds, kind \in {"buy", "sell"}, id \in Identities :
          Call(MaxLockCalls, t, kind, id, "gphm", "1")
    \/ \E t \in TaskIds, kind \in {"market", "portfolio"}, id \in Identities :
          ViewCall(MaxLockCalls, t, kind, id, "-")
    \/ \E t \in TaskIds, id \in Identities :
          ViewCall(MaxLockCalls, t, "detail", id, "gphm")

NextLock == LockTicker \/ LockCalls \/ \E t \in TaskIds : Resume(t)

SpecLock == InitLock /\ [][NextLock]_vars

\* The lock runs on a fair event loop: a coroutine whose await can return is
\* resumed in the end, and the sleep of the ticker ends.
SpecLockFair ==
    /\ SpecLock
    /\ WF_vars(LockTicker)
    /\ \A t \in TaskIds : WF_vars(Resume(t))

\* Runs with several identities: two users of one group and one of them in a
\* second group; join, buy, sell, the display requests and the ticker
InitIds ==
    FirstRun(OneStockCatalog, << >>, << >>,
             [DefaultConfig EXCEPT !.enable_news_push = FALSE,
                                   !.base_volatility = 0],
             {<<"g1", "u1">>, <<"g1", "u2">>, <<"g2", "u1">>})

NextIds ==
    TickerNext(MaxIdTicks) \/ ViewNext(MaxIdCalls) \/ TradeNext(MaxIdCalls)

SpecIds == InitIds /\ [][NextIds]_vars

\* Fast runs: the ticker alone with tick_interval = 0, where consecutive
\* ticks may fall into the same second of time.time()
InitFast ==
    FirstRun(OneStockCatalog, <<GlobalBoom>>, << >>,
             [DefaultConfig EXCEPT !.tick_interval = 0, !.base_volatility = 0],
             {})

NextFast == TickerAlone(MaxFastTicks)

SpecFast == InitFast /\ [][NextFast]_vars

\* Clock runs: the ticker with news push to two groups, a join from a third
\* group, a market-board request, and terminate()
InitClock ==
    LaterRun(OneStockCatalog, <<GlobalBoom, GlobalRumor>>, << >>,
             [DefaultConfig EXCEPT !.base_volatility = 0],
             {<<"g1", "u1">>, <<"g2", "u1">>}, {<<"g3", "u1">>})

ClockTicker(bound) ==
    \/ DelayDone
    \/ \E rg \in RandomDraws, gi \in 1..2 :
          TickBegin(bound, rg, gi, 95, 1, [c \in Codes |-> 0])
    \/ TickGranted([c \in Codes |-> 0])
    \/ TickSaveOpen
    \/ \E g \in Groups \cup {"-"} : TickSaveWrite(g)
    \/ \E ok \in BOOLEAN, g \in Groups \cup {"-"} : PushSent(ok, g)
    \/ \E g \in Groups \cup {"-"} : PushSleepDone(g)
    \/ CooldownDone
    \/ TickCancelled

ClockCalls(bound) ==
    \/ \E t \in TaskIds : Call(bound, t, "join", <<"g3", "u1">>, "-", "0")
    \/ \E t \in TaskIds : ViewCall(bound, t, "market", <<"g1", "u1">>, "-")
    \/ \E t \in TaskIds : SaveOpen(t)
    \/ \E t \in TaskIds : SaveWrite(t)
    \/ \E t \in TaskIds : RegSaveDone(t)
    \/ \E t \in TaskIds : ViewGranted(t)
    \/ \E t \in TaskIds, ok \in BOOLEAN : RenderDone(t, ok)
    \/ \E t \in TaskIds : ReplyDone(t)

Shutdown ==
    \/ \E t \in TaskIds : Terminate(t)
    \/ \E t \in TaskIds : StateOpen(t)
    \/ \E t \in TaskIds : StateWrite(t)

NextClock == ClockTicker(MaxClockTicks) \/ ClockCalls(MaxClockCalls) \/ Shutdown

SpecClock == InitClock /\ [][NextClock]_vars

\* Disk runs: buys and sells of a joined identity whose portfolio saves may
\* fail, and the ticker
InitDisk ==
    LaterRun(OneStockCatalog, << >>, << >>,
             [DefaultConfig EXCEPT !.enable_news_push = FALSE,
                                   !.base_volatility = 0],
             {<<"g1", "u1">>}, {})

DiskTicker(bound) ==
    \/ DelayDone
    \/ TickBegin(bound, 95, 1, 95, 1, [c \in Codes |-> 0])
    \/ TickGranted([c \in Codes |-> 0])
    \/ TickSaveOpen
    \/ TickSaveWrite("-")

DiskCalls(bound) ==
    \/ \E t \in TaskIds, kind \in {"buy", "sell"} :
          Call(bound, t, kind, <<"g1", "u1">>, "gphm", "1")
    \/ \E t \in TaskIds : LoadDone(t)
    \/ \E t \in TaskIds : Granted(t)
    \/ \E t \in TaskIds : SaveOpen(t)
    \/ \E t \in TaskIds : SaveOpenFails(t)
    \/ \E t \in TaskIds : SaveWrite(t)
    \/ \E t \in TaskIds : SaveWriteFails(t)
    \/ \E t \in TaskIds : ReplyDone(t)

NextDisk == DiskTicker(MaxDiskTicks) \/ DiskCalls(MaxDiskCalls)

SpecDisk == InitDisk /\ [][NextDisk]_vars

\* Calm runs: the ticker alone with base_volatility = 0 and empty event
\* catalogs, for more ticks than the history keeps
InitCalm ==
    FirstRun(StockCatalog, << >>, << >>,
             [DefaultConfig EXCEPT !.base_volatility = 0], {})

NextCalm == TickerAlone(MaxCalmTicks)

SpecCalm == InitCalm /\ [][NextCalm]_vars

\* Trend runs: the ticker alone, two stocks, three global templates matching
\* by industry and tags, by industry, and by tags; no drift, no local event
InitTrend ==
    FirstRun(StockCatalog, <<GlobalBoom, GlobalCrash, GlobalCloud>>, << >>,
             [DefaultConfig EXCEPT !.base_volatility = 0], {})

NextTrend ==
    \/ \E rg \in RandomDraws, gi \in 1..3 :
          TickBegin(MaxTrendTicks, rg, gi, 95, 1, [c \in Codes |-> 0])
    \/ TickSaveOpen
    \/ TickSaveWrite("-")

SpecTrend == InitTrend /\ [][NextTrend]_vars

\* Order runs: the ticker with global and local events and news push to one
\* group, and market-board requests that compete for the lock
InitOrder ==
    LaterRun(StockCatalog, <<GlobalCrash, GlobalBoom>>, <<LocalStrike>>,
             [DefaultConfig EXCEPT !.base_volatility = 0], {<<"g1", "u1">>}, {})

OrderTicker(bound) ==
    \/ DelayDone
    \/ \E rg \in RandomDraws, gi \in 1..2, rl \in RandomDraws :
          TickBegin(bound, rg, gi, rl, 1, [c \in Codes |-> 0])
    \/ TickGranted([c \in Codes |-> 0])
    \/ TickSaveOpen
    \/ \E g \in Groups \cup {"-"} : TickSaveWrite(g)
    \/ \E ok \in BOOLEAN, g \in Groups \cup {"-"} : PushSent(ok, g)
    \/ \E g \in Groups \cup {"-"} : PushSleepDone(g)

OrderCalls(bound) ==
    \/ \E t \in TaskIds : ViewCall(bound, t, "market", <<"g1", "u1">>, "-")
    \/ \E t \in TaskIds : ViewGranted(t)
    \/ \E t \in TaskIds, ok \in BOOLEAN : RenderDone(t, ok)
    \/ \E t \in TaskIds : ReplyDone(t)

NextOrder == OrderTicker(MaxOrderTicks) \/ OrderCalls(MaxOrderCalls)

SpecOrder == InitOrder /\ [][NextOrder]_vars

\* Local-event runs: the ticker alone, two stocks, one global template and
\* two local templates (one matching by tag, one by code and tag); no drift
InitLocal ==
    FirstRun(StockCatalog, <<GlobalBoom>>, <<LocalStrike, LocalRecall>>,
             [DefaultConfig EXCEPT !.base_volatility = 0], {})

NextLocal ==
    \/ \E rg \in RandomDraws, rl \in RandomDraws, li \in 1..2 :
          TickBegin(MaxLocalTicks, rg, 1, rl, li, [c \in Codes |-> 0])
    \/ TickSaveOpen
    \/ TickSaveWrite("-")

SpecLocal == InitLocal /\ [][NextLocal]_vars

\* Failure runs: the ticker on two stocks with a well-formed and a malformed
\* global template, no drift, no push, and market-board requests that
\* compete for the lock
InitFail ==
    FirstRun(StockCatalog, <<GlobalBoom, GlobalTypo>>, << >>,
             [DefaultConfig EXCEPT !.base_volatility = 0,
                                   !.enable_news_push = FALSE],
             {<<"g1", "u1">>})

FailTicker(bound) ==
    \/ \E rg \in RandomDraws, gi \in 1..2 :
          TickBegin(bound, rg, gi, 95, 1, [c \in Codes |-> 0])
    \/ \E rg \in RandomDraws, gi \in 1..2 :
          TickBeginFails(bound, rg, gi, 95, 1, [c \in Codes |-> 0])
    \/ TickGranted([c \in Codes |-> 0])
    \/ TickGrantedFails([c \in Codes |-> 0])
    \/ TickSaveOpen
    \/ TickSaveWrite("-")
    \/ CooldownDone

FailCalls(bound) ==
    \/ \E t \in TaskIds : Call(bound, t, "join", <<"g1", "u1">>, "-", "0")
    \/ \E t \in TaskIds : ViewCall(bound, t, "market", <<"g1", "u1">>, "-")
    \/ \E t \in TaskIds : SaveOpen(t)
    \/ \E t \in TaskIds : SaveWrite(t)
    \/ \E t \in TaskIds : RegSaveDone(t)
    \/ \E t \in TaskIds : ViewGranted(t)
    \/ \E t \in TaskIds, ok \in BOOLEAN : RenderDone(t, ok)
    \/ \E t \in TaskIds : ReplyDone(t)

NextFail == FailTicker(MaxFailTicks) \/ FailCalls(MaxFailCalls)

SpecFail == InitFail /\ [][NextFail]_vars

\* Holding runs: a first run on two stocks; join, buys and sells of a known
\* and of an unknown code by one identity, and the ticker
InitHold ==
    FirstRun(StockCatalog, << >>, << >>,
             [DefaultConfig EXCEPT !.enable_news_push = FALSE,
                                   !.base_volatility = 0],
             {<<"g1", "u1">>})

HoldTicker(bound) ==
    \/ TickBegin(bound, 95, 1, 95, 1, [c \in Codes |-> 0])
    \/ TickGranted([c \in Codes |-> 0])
    \/ TickSaveOpen
    \/ TickSaveWrite("-")

HoldCalls(bound) ==
    \/ \E t \in TaskIds : Call(bound, t, "join", <<"g1", "u1">>, "-", "0")
    \/ \E t \in TaskIds, kind \in {"buy", "sell"}, code \in CodeInputs :
          Call(bound, t, kind, <<"g1", "u1">>, code, "1")
    \/ \E t \in TaskIds : LoadDone(t)
    \/ \E t \in TaskIds : Granted(t)
    \/ \E t \in TaskIds : SaveOpen(t)
    \/ \E t \in TaskIds : SaveWrite(t)
    \/ \E t \in TaskIds : RegSaveDone(t)
    \/ \E t \in TaskIds : ReplyDone(t)

NextHold == HoldTicker(MaxHoldTicks) \/ HoldCalls(MaxHoldCalls)

SpecHold == InitHold /\ [][NextHold]_vars

\* ------------------------------------------------------------ two runs
\* Steps 1-4 of a tick as a function of the MarketState m = [prices, events,
\* history], the random draws (rg, gi for the global event, the local event
\* drawn, the drift per stock) and the time of the tick.
TickOf(m, rg, gi, l_event, drifts, time) ==
    LET next_active == SelectSeq(Decremented(m.events), StillActive)
        trigG == global_events # << >> /\ rg < config.global_event_chance
        newG == IF trigG THEN <<Instantiate(global_events[gi], time)>> ELSE << >>
        events == next_active \o newG
        new_prices ==
           [c \in Codes |->
              calculate_new_price(c, stocks_data[c], m.prices[c], events,
                                  l_event, drifts[c])]
    IN  [prices |-> new_prices,
         events |-> events,
         history |-> [c \in Codes |->
                        LastN(Append(m.history[c], new_prices[c]),
                              CHART_HISTORY_LENGTH)]]

\* A second run starts from the MarketState of this run, at time t0.
TwinStart(t0) ==
    /\ ~twin.started
    /\ ticks = 0
    /\ ticker.pc = "sleep"
    /\ twin' = [started |-> TRUE, prices |-> stock_prices,
                events |-> active_global_events, history |-> price_history,
                now |-> t0, ticks |-> 0, rg |-> 0, gi |-> 1]
    /\ UNCHANGED <<stocks_data, global_events, local_events, config, marketVars,
                   playing_groups, files, game_state_file, lockVars, ticker,
                   tasks, ticks, calls, now>>

\* The second run performs its next tick with the draws rg, gi (no local
\* event, zero drift), which it keeps for the tick of this run.
TwinTick(bound, rg, gi) ==
    /\ twin.started
    /\ twin.ticks = ticks
    /\ ticks < bound
    /\ ticker.pc = "sleep"
    /\ IF global_events # << >> /\ rg < config.global_event_chance
       THEN gi \in 1..Len(global_events) ELSE gi = 1
    /\ \E time \in {twin.now + dt : dt \in Elapsed(config.tick_interval)} :
          LET m == TickOf(twin, rg, gi, << >>, [c \in Codes |-> 0], time)
          IN  twin' = [started |-> TRUE, prices |-> m.prices, events |-> m.events,
                       history |-> m.history, now |-> time,
                       ticks |-> twin.ticks + 1, rg |-> rg, gi |-> gi]
    /\ UNCHANGED <<stocks_data, global_events, local_events, config, marketVars,
                   playing_groups, files, game_state_file, lockVars, ticker,
                   tasks, ticks, calls, now>>

\* Twin runs: the ticker alone, and a second run started from the same
\* MarketState at the same or at another time and fed the same draws
InitTwin ==
    FirstRun(OneStockCatalog, <<GlobalBoom>>, << >>,
             [DefaultConfig EXCEPT !.base_volatility = 0], {})

NextTwin ==
    \/ \E t0 \in {0, 7} : TwinStart(t0)
    \/ \E rg \in RandomDraws : TwinTick(MaxTwinTicks, rg, 1)
    \/ /\ twin.started /\ twin.ticks = ticks + 1
       /\ TickBegin(MaxTwinTicks, twin.rg, twin.gi, 95, 1, [c \in Codes |-> 0])
    \/ TickSaveOpen
    \/ TickSaveWrite("-")

SpecTwin == InitTwin /\ [][NextTwin]_vars

\* ------------------------------------------------------------ startup
EmptyCatalog == << >>                     \* {} as stocks.json

\* game_state.json as initialize_data_files creates it
DefaultGameStateFile ==
    [state |-> "data", prices |-> << >>, active_global_events |-> << >>,
     price_history |-> << >>, last_local_event_news |-> "none"]

\* __init__: empty catalogs and state, no running_task; initialize_plugin is
\* scheduled.  No data file exists yet; identities of `ids` have no portfolio.
Constructed(cfg, ids) ==
    /\ stocks_data = EmptyCatalog
    /\ global_events = << >>
    /\ local_events = << >>
    /\ config = cfg
    /\ stock_prices = << >>
    /\ active_global_events = << >>
    /\ price_history = << >>
    /\ playing_groups = {}
    /\ files = [id \in ids |-> NoFile]
    /\ game_state_file = [DefaultGameStateFile EXCEPT !.state = "nofile"]
    /\ lockHolder = "none"
    /\ lockWaiters = << >>
    /\ ticker = [TickerIdle EXCEPT !.pc = "unborn"]
    /\ tasks = [t \in TaskIds |-> IdleTask]
    /\ ticks = 0
    /\ calls = 0
    /\ now = 0
    /\ twin = NoTwin

\* an initialize_plugin that goes on with an empty catalog
InitializePluginUnchecked(catalog, g_events, l_events) ==
    /\ ticker.pc = "unborn"
    /\ stocks_data' = catalog
    /\ global_events' = g_events
    /\ local_events' = l_events
    /\ stock_prices' = [c \in DOMAIN catalog |-> catalog[c].initial_price]
    /\ price_history' = [c \in DOMAIN catalog |-> <<catalog[c].initial_price>>]
    /\ game_state_file' =
          [state |-> "data", prices |-> stock_prices',
           active_global_events |-> << >>, price_history |-> price_history']
    /\ ticker' = [TickerIdle EXCEPT !.pc = "delay"]
    /\ UNCHANGED <<config, twin, active_global_events, playing_groups, files,
                   lockVars, tasks, ticks, calls, now>>

\* initialize_plugin on a first run, where `catalog`, `g_events`, `l_events`
\* are the contents of stocks.json, events_global.json, events_local.json:
\* the data files are created where missing and stocks.json is loaded; with
\* an empty catalog the method returns there (no ticker task); otherwise the
\* events are loaded, prices and history start from initial_price, the state
\* is saved and the ticker task is created.
InitializePlugin(catalog, g_events, l_events) ==
    /\ ticker.pc = "unborn"
    /\ stocks_data' = catalog
    /\ IF catalog = EmptyCatalog
       THEN /\ game_state_file' = DefaultGameStateFile
            /\ ticker' = [ticker EXCEPT !.pc = "off"]
            /\ UNCHANGED <<global_events, local_events, marketVars>>
       ELSE /\ global_events' = g_events
            /\ local_events' = l_events
            /\ stock_prices' = [c \in DOMAIN catalog |-> catalog[c].initial_price]
            /\ active_global_events' = << >>
            /\ price_history' = [c \in DOMAIN catalog |-> <<catalog[c].initial_price>>]
            /\ game_state_file' =
                  [state |-> "data", prices |-> stock_prices',
                   active_global_events |-> << >>, price_history |-> price_history']
            /\ ticker' = [TickerIdle EXCEPT !.pc = "delay"]
    /\ UNCHANGED <<config, twin, playing_groups, files, lockVars, tasks, ticks,
                   calls, now>>

\* Startup runs: construction, initialize_plugin with an empty or a one-stock
\* catalog, then the ticker and join, buy and market-board requests
InitBoot ==
    Constructed([DefaultConfig EXCEPT !.enable_news_push = FALSE,
                                      !.base_volatility = 0],
                {<<"g1", "u1">>})

BootTicker(bound) ==
    \/ \E catalog \in {EmptyCatalog, OneStockCatalog} :
          InitializePlugin(catalog, <<GlobalBoom>>, << >>)
    \/ DelayDone
    \/ \E rg \in RandomDraws : TickBegin(bound, rg, 1, 95, 1, [c \in Codes |-> 0])
    \/ TickGranted([c \in Codes |-> 0])
    \/ TickSaveOpen
    \/ TickSaveWrite("-")

BootCalls(bound) ==
    \/ \E t \in TaskIds : Call(bound, t, "join", <<"g1", "u1">>, "-", "0")
    \/ \E t \in TaskIds, amount_str \in {"0", "1"} :
          Call(bound, t, "buy", <<"g1", "u1">>, "gphm", amount_str)
    \/ \E t \in TaskIds : ViewCall(bound, t, "market", <<"g1", "u1">>, "-")
    \/ \E t \in TaskIds : LoadDone(t)
    \/ \E t \in TaskIds : Granted(t)
    \/ \E t \in TaskIds : SaveOpen(t)
    \/ \E t \in TaskIds : SaveWrite(t)
    \/ \E t \in TaskIds : RegSaveDone(t)
    \/ \E t \in TaskIds : ViewGranted(t)
    \/ \E t \in TaskIds, ok \in BOOLEAN : RenderDone(t, ok)
    \/ \E t \in TaskIds : ReplyDone(t)

NextBoot == BootTicker(MaxBootTicks) \/ BootCalls(MaxBootCalls)

SpecBoot == InitBoot /\ [][NextBoot]_vars

\* ================================================================ claims
Trades == {"buy", "sell"}

\* replies yielded inside `async with self.game_lock`
LockedReplies ==
    {"UnknownStock", "InsufficientFunds", "InsufficientHoldings", "BuyOK", "SellOK"}

\* the handler coroutine t takes this step
StepBy(t) == tasks'[t] # tasks[t]

\* the tick is inside its `async with self.game_lock` (commit section)
TickInCommit == ticker.pc \in {"saveOpen", "saveWrite"}

\* the trade t is inside its `async with self.game_lock`
InTradeSection(t) ==
    /\ tasks[t].kind \in Trades
    /\ \/ tasks[t].pc \in {"saveOpen", "saveWrite"}
       \/ tasks[t].pc = "reply" /\ tasks[t].reply \in LockedReplies

\* the trade t passed its checks and is executed
Executing(t) ==
    /\ tasks[t].kind \in Trades
    /\ \/ tasks[t].pc \in {"saveOpen", "saveWrite"}
       \/ tasks[t].pc = "reply" /\ tasks[t].reply \in {"BuyOK", "SellOK"}

\* the cash the trade of `task` must leave, at the price committed now
CashAtCommittedPrice(task) ==
    IF task.kind = "buy"
    THEN FSub(task.cash, FMul(stock_prices[task.code], task.amount))
    ELSE FAdd(task.cash, FMul(stock_prices[task.code], task.amount))

C1_Sections ==
    /\ TickInCommit => lockHolder = "ticker"
    /\ \A t \in TaskIds :
          InTradeSection(t) =>
             /\ lockHolder = t
             /\ ~TickInCommit
             /\ \A u \in TaskIds \ {t} : ~InTradeSection(u)
    /\ \A t \in TaskIds :
          Executing(t) =>
             /\ tasks[t].code \in DOMAIN stock_prices
             /\ tasks[t].current_price = stock_prices[tasks[t].code]
             /\ tasks[t].portfolio.cash = CashAtCommittedPrice(tasks[t])

\* C1: a buy or sell reads prices[code], changes the portfolio and writes it
\* to the file inside one section of the game lock: the tick's commit section
\* and a trade's section never overlap, two trades' sections never overlap,
\* the price a trade read is still prices[code] for as long as it is in its
\* section, and the cash it writes is the cash it loaded minus (buy) or plus
\* (sell) amount * prices[code], computed in float arithmetic at the price
\* that is committed at the moment of the write.
C1_TradeAtomicWithTick ==
    [][/\ C1_Sections'
       /\ \A t \in TaskIds :
             (tasks[t].kind \in Trades /\ tasks[t].pc = "saveWrite" /\ StepBy(t)) =>
                /\ files'[tasks[t].id].state = "data"
                /\ files'[tasks[t].id].cash = CashAtCommittedPrice(tasks[t])
                /\ stock_prices' = stock_prices]_vars

\* C1 witness: a buy executed at a price committed by a tick has replied while
\* the next tick is queued behind it for the lock
C1_Witness ==
    \E t \in TaskIds :
       /\ tasks[t].reply = "BuyOK"
       /\ tasks[t].current_price # stocks_data[tasks[t].code].initial_price
       /\ ticker.pc = "waitLock"
       /\ files[tasks[t].id].cash = CashAtCommittedPrice(tasks[t])

\* everything a handler could change besides its own locals and the lock
StoredState ==
    <<files, playing_groups, stock_prices, active_global_events, price_history,
      game_state_file>>

BuyRejections == {"InvalidQuantity", "UnknownStock", "InsufficientFunds"}

\* the step of buy handler t in which it yields a rejection
BuyRejectedBy(t) ==
    /\ StepBy(t)
    /\ tasks'[t].kind = "buy"
    /\ tasks'[t].pc = "reply" /\ tasks'[t].reply \in BuyRejections

\* C2: a buy is rejected as InvalidQuantity exactly when quantity <= 0, as
\* UnknownStock exactly when quantity > 0 and the code has no price, as
\* InsufficientFunds exactly when the loaded cash is below price * quantity;
\* a rejected buy has changed nothing on its way (it never passed through the
\* save), the rejecting step changes no file, no market state and no group
\* set, and the portfolio it holds is still the one it loaded; and whenever a
\* step of a buy handler does change stored state, that buy has quantity > 0,
\* a price and enough cash.
C2_RejectedBuyMutatesNothing ==
    [][\A t \in TaskIds :
          /\ BuyRejectedBy(t) =>
                /\ tasks[t].pc \in {"load", "waitLock"}
                /\ UNCHANGED StoredState
                /\ tasks'[t].portfolio = IF tasks[t].pc = "load"
                                         THEN files[tasks[t].id]
                                         ELSE tasks[t].portfolio
                /\ (tasks'[t].reply = "InvalidQuantity") = (tasks'[t].amount <= 0)
                /\ (tasks'[t].reply = "UnknownStock") =
                      (/\ tasks'[t].amount > 0
                       /\ tasks'[t].code \notin DOMAIN stock_prices)
                /\ tasks'[t].reply = "InsufficientFunds" =>
                      tasks'[t].portfolio.cash <
                         FMul(stock_prices[tasks'[t].code], tasks'[t].amount)
          /\ (StepBy(t) /\ tasks[t].kind = "buy" /\ StoredState' # StoredState) =>
                /\ tasks[t].amount > 0
                /\ tasks[t].code \in DOMAIN stock_prices
                /\ tasks[t].cash >= FMul(stock_prices[tasks[t].code], tasks[t].amount)
       ]_vars

\* C2 witness: a joined user's buy was rejected for insufficient funds
C2_Witness ==
    \E t \in TaskIds :
       /\ tasks[t].kind = "buy" /\ tasks[t].reply = "InsufficientFunds"
       /\ files[tasks[t].id] = tasks[t].portfolio
       /\ tasks[t].portfolio.cash < tasks[t].total

SellRejections == {"InvalidQuantity", "InsufficientHoldings", "UnknownStock"}

\* the step of sell handler t in which it decides: it rejects, or it applies
\* the sale and goes on to save
SellDecidedBy(t) ==
    /\ StepBy(t)
    /\ tasks[t].kind = "sell"
    /\ tasks[t].pc \in {"load", "waitLock"}
    /\ tasks'[t].pc \in {"reply", "saveOpen"}
    /\ tasks'[t].reply # "NotJoined"

\* C3: a sell of a joined user with quantity <= 0 is rejected as
\* InvalidQuantity; with quantity > 0 and more than the held amount of the
\* loaded portfolio (0 for a code not held) it is rejected as
\* InsufficientHoldings, whether or not the code has a price; UnknownStock is
\* reported only when the holding suffices and the code has no price; the sale
\* goes ahead only with quantity > 0, a sufficient holding and a price; a
\* rejection comes from the deciding step only, changes no stored state and
\* leaves the portfolio as loaded.
C3_SellRejectionOrder ==
    [][\A t \in TaskIds :
          /\ SellDecidedBy(t) =>
                LET task == tasks'[t]
                    loaded == IF tasks[t].pc = "load" THEN files[tasks[t].id]
                              ELSE tasks[t].portfolio
                    code == Upper(tasks[t].code)
                    held == Held(loaded.stocks, code)
                IN  /\ task.amount <= 0 =>
                           task.pc = "reply" /\ task.reply = "InvalidQuantity"
                    /\ (task.amount > 0 /\ held < task.amount) =>
                           task.pc = "reply" /\ task.reply = "InsufficientHoldings"
                    /\ (task.amount > 0 /\ held >= task.amount
                          /\ code \notin DOMAIN stock_prices) =>
                           task.pc = "reply" /\ task.reply = "UnknownStock"
                    /\ (task.amount > 0 /\ held >= task.amount
                          /\ code \in DOMAIN stock_prices) =>
                           /\ task.pc = "saveOpen"
                           /\ task.portfolio =
                                 SellApply(loaded, code, task.amount,
                                           stock_prices[code])
                    /\ task.pc = "reply" =>
                           /\ task.reply \in SellRejections
                           /\ UNCHANGED StoredState
                           /\ task.portfolio = loaded
          /\ ( /\ StepBy(t) /\ tasks'[t].kind = "sell"
               /\ tasks'[t].pc = "reply" /\ tasks[t].pc # "reply"
               /\ tasks'[t].reply \in SellRejections ) => SellDecidedBy(t)
       ]_vars

\* C3 witness: a sell of a code that is not held and has no price was rejected
\* as InsufficientHoldings
C3_Witness ==
    \E t \in TaskIds :
       /\ tasks[t].kind = "sell" /\ tasks[t].reply = "InsufficientHoldings"
       /\ tasks[t].code \notin DOMAIN stock_prices
       /\ tasks[t].code \notin DOMAIN tasks[t].portfolio.stocks
       /\ files[tasks[t].id] = tasks[t].portfolio

\* C4: every stored portfolio has cash >= 0 and only holdings of at least
\* one share
C4_PortfolioInvariant ==
    \A id \in Identities :
       files[id].state = "data" =>
          /\ files[id].cash >= 0
          /\ \A c \in DOMAIN files[id].stocks : files[id].stocks[c] >= 1

\* C4 witness: a sell of the whole holding was stored, and the entry is gone
C4_Witness ==
    \E t \in TaskIds :
       /\ tasks[t].kind = "sell" /\ tasks[t].reply = "SellOK"
       /\ tasks[t].held_amount = tasks[t].amount
       /\ files[tasks[t].id] = tasks[t].portfolio
       /\ tasks[t].code \notin DOMAIN files[tasks[t].id].stocks

\* C5: for every stored portfolio, every code with a current price p and
\* every quantity q > 0 with cash >= p * q, a buy of q followed by a sell of q
\* at the same price gives back the portfolio exactly: the cash, the holding,
\* and no entry for a code that was not held before.
C5_RoundTripRestores ==
    \A id \in Identities :
       files[id].state = "data" =>
          \A code \in DOMAIN stock_prices : \A q \in 1..2 :
             LET portfolio == files[id]
                 p == stock_prices[code]
             IN  portfolio.cash >= FMul(p, q) =>
                    SellApply(BuyApply(portfolio, code, q, p), code, q, p)
                       = portfolio

\* the holdings alone do come back from the round trip
C5_HoldingsRestored ==
    \A id \in Identities :
       files[id].state = "data" =>
          \A code \in DOMAIN stock_prices : \A q \in 1..2 :
             LET portfolio == files[id]
                 p == stock_prices[code]
             IN  SellApply(BuyApply(portfolio, code, q, p), code, q, p).stocks
                    = portfolio.stocks

\* C6: a step of a join handler never replaces or destroys the stored
\* portfolio of an identity that has traded since it joined (a stored
\* portfolio that differs from the starting one): the join leaves it verbatim.
C6_JoinKeepsPortfolio ==
    [][\A t \in TaskIds :
          LET id == tasks[t].id IN
          ( /\ StepBy(t) /\ tasks[t].kind = "join"
            /\ files[id].state = "data"
            /\ files[id] # PortfolioOf(config.starting_cash, EmptyStocks) )
          => files'[id] = files[id]
       ]_vars

\* C6, second half: of the join handlers running at one time for an identity,
\* at most one is on the path that grants the starting cash.
C6_GrantedOnce ==
    \A t1, t2 \in TaskIds :
       ( /\ t1 # t2
         /\ tasks[t1].kind = "join" /\ tasks[t2].kind = "join"
         /\ tasks[t1].id = tasks[t2].id
         /\ tasks[t1].reply = "JoinOK" )
       => tasks[t2].reply # "JoinOK"

\* the step in which a tick commits new prices (step 4 up to its save)
TickCommits == ticker.pc # "saveOpen" /\ ticker'.pc = "saveOpen"

C8_HistoryBoundedFifo ==
    [][\A code \in Codes :
          /\ Len(price_history[code]) <= 100
          /\ Len(price_history'[code]) <= 100
          /\ TickCommits =>
                price_history'[code] =
                   IF Len(price_history[code]) < 100
                   THEN Append(price_history[code], stock_prices'[code])
                   ELSE Tail(price_history[code]) \o <<stock_prices'[code]>>
          /\ ~TickCommits => price_history'[code] = price_history[code]
       ]_vars

\* C8 witness: more than 100 ticks were committed, the history is full and
\* its oldest entry is no longer the initial price
C8_Witness ==
    /\ ticks > 100
    /\ \E code \in Codes :
          /\ Len(price_history[code]) = 100
          /\ price_history[code][1] # stocks_data[code].initial_price
          /\ price_history[code][100] = stock_prices[code]

\* C9: after first-run initialization and after every tick commit every stock
\* has a history, and its last element is the stock's price (no state lies
\* between the change of a price and the change of its history)
C9_LastHistoryIsPrice ==
    \A code \in Codes :
       /\ code \in DOMAIN price_history /\ code \in DOMAIN stock_prices
       /\ price_history[code] # << >>
       /\ price_history[code][Len(price_history[code])] = stock_prices[code]

\* C9 witness: a tick has committed and released the lock, and a price has
\* moved off its initial value
C9_Witness ==
    /\ ticks >= 1 /\ ticker.pc = "sleep" /\ lockHolder = "none"
    /\ \E code \in Codes :
          /\ stock_prices[code] # stocks_data[code].initial_price
          /\ Len(price_history[code]) = ticks + 1

\* C10: the keys of prices and of price_history are catalog codes, and once a
\* tick has committed the keys of prices are exactly the catalog codes
C10_KeysAreCatalogCodes ==
    /\ DOMAIN stock_prices \subseteq Codes
    /\ DOMAIN price_history \subseteq Codes
    /\ ticks >= 1 /\ ticker.pc # "waitLock" => DOMAIN stock_prices = Codes

\* C10 witness: a tick has committed a new price for each of several stocks
C10_Witness ==
    /\ ticks >= 1 /\ ticker.pc = "saveOpen"
    /\ Cardinality(Codes) > 1
    /\ \A code \in Codes : stock_prices[code] # stocks_data[code].initial_price

\* C11: prices, active_global_events and price_history change only in steps
\* of the ticker: every step of a join, buy, sell or display handler, whatever
\* its outcome, leaves all three as they are.
C11_OnlyTickMutatesMarket ==
    [][/\ \A t \in TaskIds : StepBy(t) => UNCHANGED marketVars
       /\ marketVars' # marketVars => ticker' # ticker /\ tasks' = tasks
      ]_vars

\* C11 witness: with an event active after a tick, a display request has shown
\* it and is delivering its reply
C11_Witness ==
    /\ ticks >= 1 /\ active_global_events # << >>
    /\ \E t \in TaskIds :
          /\ tasks[t].kind \in {"news", "market"} /\ tasks[t].pc = "reply"
          /\ tasks[t].report[1].events = active_global_events

\* the step of handler t that writes the portfolio file of its own identity:
\* a join creating it, or a buy or sell that passed all its checks
OwnWriteBy(t, id) ==
    /\ StepBy(t)
    /\ tasks[t].id = id
    /\ tasks[t].kind \in {"join"} \cup Trades
    /\ tasks[t].pc \in {"saveOpen", "saveWrite"}
    /\ tasks[t].kind \in Trades =>
          /\ tasks[t].amount > 0
          /\ lockHolder = t
    /\ tasks[t].kind = "join" =>
          tasks[t].portfolio = PortfolioOf(config.starting_cash, EmptyStocks)

\* C12: the portfolio file of an identity changes only in a write step of
\* that identity's own join, buy or sell; steps of the ticker, of display
\* requests, of rejected trades and of handlers of any other identity (another
\* user, or the same user in another group) leave it unchanged; and a file
\* that exists never goes back to not existing.
C12_PortfolioFrame ==
    [][\A id \in Identities :
          /\ files'[id] # files[id] => \E t \in TaskIds : OwnWriteBy(t, id)
          /\ files[id].state # "nofile" => files'[id].state # "nofile"
      ]_vars

\* C12 witness: after a tick, a user who joined in two groups has traded in
\* one of them and still has the starting portfolio in the other
C12_Witness ==
    /\ ticks >= 1
    /\ \E id1, id2 \in Identities :
          /\ id1[2] = id2[2] /\ id1[1] # id2[1]
          /\ files[id1] = PortfolioOf(config.starting_cash, EmptyStocks)
          /\ files[id2].state = "data"
          /\ DOMAIN files[id2].stocks # {}

\* C13: whoever holds the game lock is not waiting for a rendering, for the
\* delivery of a reply or of a news message, or in a sleep: a handler that
\* holds it is at neither its render nor its yield, and the ticker holds it
\* neither in its sleeps nor during the push.
C13_LockOnlyForComputation ==
    /\ \A t \in TaskIds :
          lockHolder = t => tasks[t].pc \notin {"render", "reply"}
    /\ lockHolder = "ticker" =>
          ticker.pc \notin {"sleep", "push", "pushSleep", "cooldown"}

\* the ticker's part of C13 on its own: it holds the lock only from the price
\* computation to the end of save_game_state
C13_TickerPart ==
    lockHolder = "ticker" => ticker.pc \in {"saveOpen", "saveWrite"}

LockWaits == {"waitLock", "viewWaitLock"}

\* C14: on a fair event loop every handler that waits for the game lock gets
\* past the wait, every holder of the lock gives it up, a tick that waits for
\* the lock commits, and every trade that was dispatched gets to its reply.
C14_NoIndefiniteBlocking ==
    /\ \A t \in TaskIds :
          /\ (tasks[t].pc \in LockWaits) ~> (tasks[t].pc \notin LockWaits)
          /\ (lockHolder = t) ~> (lockHolder # t)
          /\ (tasks[t].kind \in Trades) ~> (tasks[t].pc = "reply")
    /\ (lockHolder = "ticker") ~> (lockHolder # "ticker")
    /\ (ticker.pc = "waitLock") ~> (ticker.pc = "saveOpen")

\* C14 witness: a handler holds the lock while the tick and another handler
\* both wait for it
C14_Witness ==
    /\ lockHolder \in TaskIds
    /\ Len(lockWaiters) = 2
    /\ ticker.pc = "waitLock"
    /\ \E t \in TaskIds : tasks[t].pc \in LockWaits

\* The ticker is resumed (not by a cancellation) at an await of step 5 and
\* the code it runs next raises: the digest reads a missing duration_ticks,
\* or the iterator of the push loop finds the set of groups changed in size.
TickRaises ==
    /\ ticker' # ticker
    /\ ticker'.pc # "cancelled"
    /\ \/ ticker.pc = "saveWrite" /\ config.enable_news_push /\ DigestFails(ticker)
       \/ /\ ticker.pc = "push" /\ ticker'.pc # "pushSleep"
          /\ Cardinality(playing_groups) # ticker.iter_size
       \/ /\ ticker.pc = "pushSleep"
          /\ Cardinality(playing_groups) # ticker.iter_size

\* C15: a tick that raises an unexpected error leaves the Market Clock
\* running: the error puts the ticker into the cooldown, the cooldown is
\* followed by the wait for a further tick, and the ticker task ends only
\* after a cancellation, which only terminate() requests.
C15_FailedTickKeepsClockRunning ==
    [][ /\ TickRaises => ticker'.pc = "cooldown"
        /\ (ticker.pc = "cooldown" /\ ticker' # ticker)
              => ticker'.pc \in {"sleep", "cancelled"}
        /\ (ticker'.pc = "done" /\ ticker.pc # "done") => ticker.pc = "cancelled"
        /\ (ticker'.pc = "cancelled" /\ ticker.pc # "cancelled")
              => \E t \in TaskIds : tasks[t].pc = "idle" /\ tasks'[t].kind = "terminate"
      ]_vars

\* a second tick has taken the lock after one cooldown: 5 s of initial delay,
\* two tick intervals and the 60 s of the cooldown have passed
C15_Witness ==
    /\ ticker.pc = "saveOpen"
    /\ ticks = 2
    /\ now = 5 + 2 * config.tick_interval + 60

\* terminate() has been invoked
Terminating == \E t \in TaskIds : tasks[t].kind = "terminate"

\* terminate() found the ticker suspended at the await `at`
CancelledAt(at) ==
    \E t \in TaskIds : tasks[t].kind = "terminate" /\ tasks[t].report[1].at = at

\* C16: once terminate() has been invoked no step changes MarketState, the
\* ticker does nothing but end (leaving the lock and its queue), wherever the
\* cancellation found it, and when terminate() has returned the state file
\* holds the current MarketState.
C16_TerminateStopsClock ==
    /\ [](\A t \in TaskIds :
            tasks[t].pc = "terminated" => game_state_file = GameState)
    /\ [][ Terminating =>
             /\ UNCHANGED marketVars
             /\ ticker'.pc \in {"cancelled", "done"}
             /\ ticker' # ticker =>
                   /\ ticker'.pc = "done"
                   /\ lockHolder' # "ticker"
                   /\ \A i \in 1..Len(lockWaiters') : lockWaiters'[i] # "ticker"
       ]_vars

\* terminate() has returned after cancelling a ticker that was inside the
\* write of its own state save, and the ticker has ended
C16_Witness ==
    /\ CancelledAt("saveWrite")
    /\ \E t \in TaskIds : tasks[t].pc = "terminated"
    /\ ticker.pc = "done"
    /\ ticks >= 1

\* send_message to ticker.current raised: the ticker leaves that await, not
\* for the pause after a delivery and not by a cancellation
DeliveryFails ==
    /\ ticker.pc = "push"
    /\ ticker' # ticker
    /\ ticker'.pc \notin {"pushSleep", "cancelled"}

\* the push loop ends normally: the ticker goes from the push to the wait for
\* the next tick
PushEnds ==
    /\ ticker.pc \in {"push", "pushSleep"}
    /\ ticker'.pc = "sleep"

\* C17: a failed delivery to one group changes neither MarketState nor the
\* saved state, and while the set of groups is the one the push began with
\* it leads to the delivery to another remaining group or, after the last
\* group, to the wait for the next tick, never to the cooldown; a push that
\* ends has attempted the delivery to every playing group.
C17_DeliveryFailureIsLocal ==
    [][ /\ DeliveryFails =>
             /\ UNCHANGED <<marketVars, game_state_file>>
             /\ Cardinality(playing_groups) = ticker.iter_size =>
                   IF ticker.pending = {}
                   THEN ticker'.pc = "sleep"
                   ELSE /\ ticker'.pc = "push"
                        /\ ticker'.current \in ticker.pending
                        /\ ticker'.pending = ticker.pending \ {ticker'.current}
                        /\ ticker'.failed = ticker.failed \cup {ticker.current}
        /\ PushEnds =>
             /\ ticker.pending = {}
             /\ ticker.delivered \cup ticker.failed \cup {ticker.current}
                   = playing_groups
      ]_vars

\* the digest has reached a group after the delivery to another group failed
C17_Witness ==
    /\ ticker.pc = "pushSleep"
    /\ ticker.failed # {}
    /\ ticker.current \in ticker.delivered
    /\ ticks >= 1

\* the step that runs steps 1-3 of a tick
TickRuns == ticks' = ticks + 1

\* an event one tick older
Aged(event) == [event EXCEPT !.remaining_ticks = event.remaining_ticks - 1]

AgedAll(events) == [i \in 1..Len(events) |-> Aged(events[i])]

\* C18: a tick keeps, one tick older and in their order, exactly the
\* previously active events with more than one tick left, and reports the
\* others, one tick older, as expired; every active event has at least one
\* tick left in every state.
C18_TickAgesEvents ==
    /\ [](\A i \in 1..Len(active_global_events) :
            active_global_events[i].remaining_ticks >= 1)
    /\ [][ TickRuns =>
             LET kept == SelectSeq(active_global_events,
                                   LAMBDA e : e.remaining_ticks - 1 > 0)
                 gone == SelectSeq(active_global_events,
                                   LAMBDA e : e.remaining_ticks - 1 <= 0)
             IN  /\ Len(active_global_events') >= Len(kept)
                 /\ SubSeq(active_global_events', 1, Len(kept)) = AgedAll(kept)
                 /\ ticker'.expired_global_events = AgedAll(gone)
                 /\ \A i \in 1..Len(gone) :
                       \A j \in 1..Len(active_global_events') :
                          active_global_events'[j] # Aged(gone[i])
       ]_vars

\* a tick has expired one event and kept another, older by one tick
C18_Witness ==
    /\ ticker.expired_global_events # << >>
    /\ \E i \in 1..Len(active_global_events) :
          active_global_events[i].remaining_ticks
             < active_global_events[i].duration_ticks

\* C19: a tick changes the number of active events by minus the number it
\* expires plus the number it triggers, which is at most one; no other step
\* changes the active events.
C19_ActiveEventCount ==
    [][ /\ TickRuns =>
             /\ Len(ticker'.triggered_new_global_events) <= 1
             /\ Len(active_global_events')
                   = Len(active_global_events)
                       - Len(ticker'.expired_global_events)
                       + Len(ticker'.triggered_new_global_events)
             /\ Len(ticker'.expired_global_events)
                   = Cardinality({i \in 1..Len(active_global_events) :
                                    active_global_events[i].remaining_ticks <= 1})
             /\ ticker'.triggered_new_global_events = << >>
                   => Len(active_global_events') <= Len(active_global_events)
        /\ ~TickRuns => UNCHANGED active_global_events
      ]_vars

\* a tick has expired one event and triggered another while a third stays
C19_Witness ==
    /\ Len(ticker.expired_global_events) = 1
    /\ Len(ticker.triggered_new_global_events) = 1
    /\ Len(active_global_events) = 2

\* the uids of the active global events are pairwise distinct
DistinctUids ==
    \A i, j \in 1..Len(active_global_events) :
       i # j => active_global_events[i].uid # active_global_events[j].uid

\* the event a tick has just triggered has its template's duration left
InstantiatedWithDuration ==
    \A i \in 1..Len(ticker.triggered_new_global_events) :
       LET e == ticker.triggered_new_global_events[i]
       IN  e.remaining_ticks = e.duration_ticks

\* C20: a newly triggered global event has remaining_ticks = duration_ticks
\* of its template, and in every reachable state the instance ids of the
\* active global events are pairwise distinct, whatever the tick interval.
C20_FreshInstanceIds == InstantiatedWithDuration /\ DistinctUids

\* the part of C20 that holds at a zero tick interval too
C20_DurationPart == InstantiatedWithDuration

\* the ids are distinct when ticks are whole seconds apart (market runs)
C20_DistinctAtDefaultInterval == DistinctUids

\* the step in which a tick's save_game_state completes its write
TickPersists == ticker.pc = "saveWrite" /\ ticker'.pc \notin {"saveWrite", "cancelled"}

\* C21: the state a tick persists carries last_local_event_news, equal to the
\* content of the local event the tick triggered, or to its value before the
\* tick when the tick triggered none.
C21_LocalNewsPersisted ==
    [][ TickPersists =>
          /\ "last_local_event_news" \in DOMAIN game_state_file'
          /\ IF ticker.triggered_local_event # << >>
             THEN game_state_file'.last_local_event_news
                     = ticker.triggered_local_event[1].content
             ELSE /\ "last_local_event_news" \in DOMAIN game_state_file
                  /\ game_state_file'.last_local_event_news
                        = game_state_file.last_local_event_news
      ]_vars

\* Every tick begun since the first run has committed its prices: the
\* history of each stock holds the initial price and one price per tick.
NoTickHalfDone ==
    \A c \in Codes : Len(price_history[c]) = ticks + 1

\* the display request of task t builds its report in this step
BuildsReport(t) ==
    /\ tasks[t].report = << >>
    /\ tasks'[t].report # << >>
    /\ tasks'[t].kind \in Views

\* C22: a market board is built from the active events and the prices of a
\* state in which no tick is half done, i.e. no tick has updated the active
\* events without having committed its prices.
C22_BoardOfCompletedTick ==
    [][ \A t \in TaskIds :
          (BuildsReport(t) /\ tasks'[t].kind = "market") =>
             /\ NoTickHalfDone
             /\ UNCHANGED marketVars
             /\ tasks'[t].report[1].events = active_global_events
             /\ tasks'[t].report[1].prices = stock_prices
      ]_vars

\* initialize_plugin has run and found the stock catalog empty
EmptyAtStartup == ticker.pc # "unborn" /\ Codes = {}

\* the simulation is off: no ticker task, no tick, no price, no holding
SimulationOff ==
    /\ ticker.pc = "off"
    /\ ticks = 0
    /\ DOMAIN stock_prices = {}
    /\ active_global_events = << >>
    /\ \A id \in Identities : files[id].stocks = EmptyStocks

\* C23 as stated: with a catalog empty at startup the Market Clock is never
\* started, no tick runs, prices stay empty, and every buy is rejected as
\* UnknownStock.
C23_EveryBuyUnknownStock ==
    EmptyAtStartup =>
       /\ SimulationOff
       /\ \A t \in TaskIds :
             (tasks[t].kind = "buy" /\ tasks[t].pc = "reply")
                => tasks[t].reply = "UnknownStock"

\* C23 amended: with a catalog empty at startup the Market Clock is never
\* started (and startup is not run again), no tick runs, prices stay empty,
\* and every buy is rejected: as NotJoined when the caller has no portfolio,
\* as InvalidQuantity when the quantity is not positive, and as UnknownStock
\* otherwise.
C23_EmptyCatalogDisables ==
    /\ [](EmptyAtStartup =>
            /\ SimulationOff
            /\ \A t \in TaskIds :
                  (tasks[t].kind = "buy" /\ tasks[t].pc \notin {"idle", "load", "waitLock"})
                     => /\ tasks[t].pc = "reply"
                        /\ tasks[t].reply =
                              IF tasks[t].portfolio.state # "data" THEN "NotJoined"
                              ELSE IF tasks[t].amount <= 0 THEN "InvalidQuantity"
                              ELSE "UnknownStock")
    /\ [][ticker.pc = "off" => ticker'.pc = "off"]_vars

\* with the catalog empty at startup, a joined caller's buy of one share is
\* being rejected as UnknownStock
C23_Witness ==
    /\ EmptyAtStartup
    /\ \E t \in TaskIds :
          /\ tasks[t].kind = "buy" /\ tasks[t].pc = "reply"
          /\ tasks[t].reply = "UnknownStock"
          /\ tasks[t].amount = 1

\* both runs have performed the same number of ticks
TwinInStep == twin.started /\ twin.ticks = ticks

\* the two runs have the same prices and histories
SamePrices == twin.prices = stock_prices /\ twin.history = price_history

\* C24: two runs started from the same MarketState and fed the same random
\* draws have identical MarketState after every tick: prices, price_history
\* and active_global_events, with the id and remaining_ticks of each instance.
C24_TickDeterministic ==
    TwinInStep => SamePrices /\ twin.events = active_global_events

\* an active event without its instance id
Anonymous(event) == [k \in DOMAIN event \ {"uid"} |-> event[k]]

\* the part of C24 that holds: the runs agree on everything but instance ids
C24_SameButIds ==
    TwinInStep =>
       /\ SamePrices
       /\ Len(twin.events) = Len(active_global_events)
       /\ \A i \in 1..Len(twin.events) :
             Anonymous(twin.events[i]) = Anonymous(active_global_events[i])

\* the save of the trade of task t ends in this step without the file
\* holding the traded portfolio
TradeSaveFails(t) ==
    /\ tasks[t].kind \in {"buy", "sell"}
    /\ tasks[t].pc \in {"saveOpen", "saveWrite"}
    /\ tasks'[t].pc \notin {"saveOpen", "saveWrite"}
    /\ files'[tasks[t].id] # tasks[t].portfolio

\* C25: when the save of a valid trade fails, the handler still yields the
\* success reply with the cash after the trade and the price the trade was
\* executed at, and it ends as after a successful save: it is inside the
\* lock only until the reply is delivered.
C25_SaveFailureNotSurfaced ==
    [][ \A t \in TaskIds :
          /\ TradeSaveFails(t) =>
                LET task == tasks[t]
                    after == tasks'[t]
                IN  /\ after.pc = "reply"
                    /\ after.reply = IF task.kind = "buy" THEN "BuyOK" ELSE "SellOK"
                    /\ after.current_price = stock_prices[task.code]
                    /\ after.portfolio.cash =
                          IF task.kind = "buy"
                          THEN FSub(task.cash, FMul(stock_prices[task.code], task.amount))
                          ELSE FAdd(task.cash, FMul(stock_prices[task.code], task.amount))
                    /\ lockHolder' = t
          /\ (tasks[t].pc = "reply" /\ tasks'[t].pc # "reply") =>
                tasks'[t].pc = "idle" /\ lockHolder' # t
      ]_vars

\* a buy is replying success while the portfolio file is truncated or still
\* holds the cash of before the trade
C25_Witness ==
    \E t \in TaskIds :
       /\ tasks[t].kind = "buy"
       /\ tasks[t].pc = "reply"
       /\ tasks[t].reply = "BuyOK"
       /\ files[tasks[t].id] # tasks[t].portfolio

\* n copies of price
Copies(n, price) == [i \in 1..n |-> price]

Affects(event, stock) ==
    \/ stock.industry \in event.affected_industries
    \/ \E tag \in stock.tags : tag \in event.affected_tags

RECURSIVE SumOfImpacts(_, _)
\* the sum of trend_impact over the events at the positions in `indices`
SumOfImpacts(events, indices) ==
    IF indices = {} THEN 0
    ELSE LET i == CHOOSE k \in indices : TRUE
         IN  events[i].trend_impact + SumOfImpacts(events, indices \ {i})

\* the trend impact on a stock as C27 gives it: one term per active event
\* that affects the stock
TrendOf(stock) ==
    SumOfImpacts(active_global_events,
                 {i \in 1..Len(active_global_events) :
                     Affects(active_global_events[i], stock)})

\* C27: the trend impact the price engine uses for a stock is the sum of
\* trend_impact over exactly the active events that affect the stock, each
\* counted once however it matches, and the price a tick commits (without
\* drift and local event) is the previous price moved by that sum.
C27_TrendImpactPerEvent ==
    /\ [](\A c \in Codes :
            total_trend_impact(stocks_data[c], active_global_events)
               = TrendOf(stocks_data[c]))
    /\ [][ ticks' = ticks + 1 =>
             \A c \in Codes :
                stock_prices'[c] =
                   ApplyFloor(FloatOf(stock_prices[c] * (1000 + TrendOf(stocks_data[c])'),
                                      1000))
       ]_vars

\* two instances of the template that matches GPHM by industry and by two
\* tags are active: GPHM gets the impact twice (once per instance), QLAI,
\* which they do not affect, gets none
C27_Witness ==
    /\ Len(active_global_events) = 2
    /\ active_global_events[1].content = "boom"
    /\ active_global_events[2].content = "boom"
    /\ TrendOf(stocks_data["GPHM"]) = 2 * GlobalBoom.trend_impact
    /\ TrendOf(stocks_data["QLAI"]) = 0
    /\ stock_prices["GPHM"] # stocks_data["GPHM"].initial_price

\* steps 1-3 of a tick: the counter of ticks advances
ExpireAndTrigger == ticks' = ticks + 1

\* step 4 of a tick: the ticker has entered the lock and computed the prices
ComputePrices == ticker.pc \in {"sleep", "waitLock"} /\ ticker'.pc = "saveOpen"

\* the news push of a tick starts: the first send_message is awaited
PushStarts == ticker.pc \notin {"push", "pushSleep"} /\ ticker'.pc = "push"

\* the positions the ticker takes one after the other within a tick
TickOrder ==
    {<<"delay", "sleep">>,
     <<"sleep", "saveOpen">>, <<"sleep", "waitLock">>, <<"waitLock", "saveOpen">>,
     <<"saveOpen", "saveWrite">>, <<"saveWrite", "push">>, <<"saveWrite", "sleep">>,
     <<"push", "pushSleep">>, <<"push", "push">>, <<"push", "sleep">>,
     <<"pushSleep", "push">>, <<"pushSleep", "sleep">>}

\* C28: within a tick the steps run in the order expire, trigger, compute,
\* persist, push.  Expiry and trigger come first and nothing changes the
\* active list afterwards; an event triggered in the tick enters the list
\* with its full duration and the expired ones have left it; the prices are
\* computed from the list after expiry and trigger and the local event of
\* this tick; the state file is written after that, under the lock; the push
\* starts when the prices are committed and written and the lock is released.
C28_StepsInOrder ==
    /\ [][ ticker'.pc # ticker.pc => <<ticker.pc, ticker'.pc>> \in TickOrder ]_vars
    /\ [][ active_global_events' # active_global_events => ExpireAndTrigger ]_vars
    /\ [][ ExpireAndTrigger =>
             /\ ticker.pc = "sleep"
             /\ \A i \in 1..Len(ticker'.triggered_new_global_events) :
                   LET e == ticker'.triggered_new_global_events[i]
                   IN  /\ e.remaining_ticks = e.duration_ticks
                       /\ active_global_events'[Len(active_global_events')] = e
             /\ \A i \in 1..Len(ticker'.expired_global_events) :
                   \A j \in 1..Len(active_global_events') :
                      active_global_events'[j].uid # ticker'.expired_global_events[i].uid
             /\ ~ComputePrices => UNCHANGED <<stock_prices, price_history>>
       ]_vars
    /\ [][ ComputePrices =>
             /\ lockHolder' = "ticker"
             /\ stock_prices' = NewPrices(active_global_events',
                                          ticker'.triggered_local_event,
                                          [c \in Codes |-> 0])
             /\ game_state_file' = game_state_file
       ]_vars
    /\ [][ stock_prices' # stock_prices => ComputePrices ]_vars
    /\ [][ ticker.pc = "saveWrite" /\ ticker'.pc # "saveWrite" =>
             /\ lockHolder = "ticker"
             /\ game_state_file'.prices = stock_prices
             /\ game_state_file'.active_global_events = active_global_events
             /\ lockHolder' # "ticker"
       ]_vars
    /\ [][ PushStarts =>
             /\ ticker.pc = "saveWrite"
             /\ lockHolder' # "ticker"
             /\ game_state_file'.state = "data"
             /\ game_state_file'.prices = stock_prices'
       ]_vars

\* a tick in which one event expired and another was triggered has computed
\* its prices from the new event alone, beside a market-board request, and
\* its push is under way
C28_Witness ==
    /\ ticker.pc = "push"
    /\ Len(ticker.expired_global_events) = 1
    /\ Len(ticker.triggered_new_global_events) = 1
    /\ ticker.expired_global_events[1].content = "crash"
    /\ active_global_events = ticker.triggered_new_global_events
    /\ active_global_events[1].content = "boom"
    /\ active_global_events[1].remaining_ticks = GlobalBoom.duration_ticks
    /\ ticker.triggered_local_event # << >>
    /\ lockHolder # "ticker"
    /\ game_state_file = GameState
    /\ \E t \in TaskIds : tasks[t].kind = "market" /\ tasks[t].pc # "idle"

\* the local event names the stock: by its code or by one of its tags
Strikes(l_event, code) ==
    \/ code \in l_event.affected_codes
    \/ \E tag \in stocks_data[code].tags : tag \in l_event.affected_tags

\* the price of the stock after this step's drift (none) and trend, before
\* any local event and before the floor
TrendedPrice(code) ==
    FloatOf(stock_prices[code]
              * (1000 + total_trend_impact(stocks_data[code], active_global_events')),
            1000)

\* the local event of the tick that this step computes, as a set
LocalOfTick == {ticker'.triggered_local_event[i] :
                   i \in 1..Len(ticker'.triggered_local_event)}

\* C29: the local event triggered in a tick multiplies, in that tick's price
\* computation, the price of each stock it names once by
\* 1 + direct_impact_percent and leaves the other stocks to drift and trend;
\* it is chosen in the tick itself, never enters active_global_events, and a
\* tick without local event computes from drift and trend alone.
C29_LocalEventOnce ==
    /\ [](\A i \in 1..Len(active_global_events) :
             "direct_impact_percent" \notin DOMAIN active_global_events[i])
    /\ [](ticker.pc = "sleep" => ticker.triggered_local_event = << >>)
    /\ [][ ticks' = ticks + 1 =>
             \A c \in Codes :
                stock_prices'[c] =
                   IF \E l \in LocalOfTick : Strikes(l, c)
                   THEN LET l == CHOOSE l \in LocalOfTick : TRUE
                        IN  ApplyFloor(FloatOf(TrendedPrice(c)
                                                 * (1000 + l.direct_impact_percent),
                                               1000))
                   ELSE ApplyFloor(TrendedPrice(c))
       ]_vars

\* a tick with the strike moved GPHM by -12% and left QLAI alone, and the
\* next tick, without local event, moved neither
C29_Witness ==
    /\ ticks = 2
    /\ ticker.pc = "saveOpen"
    /\ ticker.triggered_local_event = << >>
    /\ active_global_events = << >>
    /\ price_history["GPHM"] = <<500, 440, 440>>
    /\ price_history["QLAI"] = <<300, 300, 300>>

\* trade handler t takes the lock in this step and goes on to save
TradeExecutes(t) ==
    /\ tasks[t].kind \in {"buy", "sell"} \/ tasks'[t].kind \in {"buy", "sell"}
    /\ lockHolder # t /\ lockHolder' = t
    /\ tasks'[t].pc = "saveOpen"

\* the trade of handler t applied to a portfolio
TradeOn(portfolio, task) ==
    IF task.kind = "buy"
    THEN BuyApply(portfolio, task.code, task.amount, task.current_price)
    ELSE SellApply(portfolio, task.code, task.amount, task.current_price)

\* C30: trades of one identity take effect one after another in the order
\* in which they hold the lock: the portfolio a trade goes on to store is
\* the trade applied to the portfolio stored when it took the lock, so no
\* completed trade is overwritten and no share is sold twice.
C30_TradesInLockOrder ==
    [][ \A t \in TaskIds :
           TradeExecutes(t) =>
              tasks'[t].portfolio = TradeOn(files[tasks'[t].id], tasks'[t])
      ]_vars

\* the ticker is in the cooldown that follows a failed tick
AfterFailedTick == ticker.pc = "cooldown"

\* C34: after a tick that failed before it replaced the price map,
\* MarketState is as it was before the tick, which is the state the last
\* completed tick (or the initialisation) saved: the active events and the
\* price history are unchanged, and the last element of every history is
\* the current price.
C34_FailedTickLeavesState ==
    AfterFailedTick =>
       /\ stock_prices = game_state_file.prices
       /\ active_global_events = game_state_file.active_global_events
       /\ price_history = game_state_file.price_history
       /\ \A c \in Codes :
             price_history[c][Len(price_history[c])] = stock_prices[c]

\* the active event with this uid after the step, as a set (empty when gone)
Survivor(uid) ==
    {active_global_events'[j] : j \in {k \in 1..Len(active_global_events') :
                                          active_global_events'[k].uid = uid}}

\* the uids the tick of this step reports as expired
ReportedExpired ==
    {ticker'.expired_global_events[i].uid : i \in 1..Len(ticker'.expired_global_events)}

\* the ticker leaves steps 1-3 (or the wait for the lock that follows them)
TickGoesOn ==
    ticker.pc \in {"sleep", "waitLock"} /\ ticker'.pc \notin {"sleep", "waitLock"}

\* C31: an event of duration d >= 1 contributes to the price computation of
\* exactly d consecutive ticks.  It enters the active list in its trigger
\* tick with d remaining ticks; every later tick takes one remaining tick
\* from it and keeps it while ticks remain, and the tick that takes the last
\* one removes it and reports it as expired; and every tick computes its
\* prices from the list as it stands after expiry and trigger, so each tick
\* that holds the event counts for it, and the tick that removes it does
\* not.
C31_ContributesDurationTicks ==
    /\ [][ ExpireAndTrigger =>
             /\ \A i \in 1..Len(ticker'.triggered_new_global_events) :
                   LET e == ticker'.triggered_new_global_events[i]
                   IN  /\ e.duration_ticks >= 1
                       /\ Survivor(e.uid) = {e}
                       /\ e.remaining_ticks = e.duration_ticks
             /\ \A i \in 1..Len(active_global_events) :
                   LET e == active_global_events[i]
                   IN  IF e.remaining_ticks > 1
                       THEN /\ Survivor(e.uid) =
                                  {[e EXCEPT !.remaining_ticks = e.remaining_ticks - 1]}
                            /\ e.uid \notin ReportedExpired
                       ELSE /\ Survivor(e.uid) = {}
                            /\ e.uid \in ReportedExpired
       ]_vars
    /\ [][ TickGoesOn =>
             /\ ComputePrices
             /\ stock_prices' = NewPrices(active_global_events',
                                          ticker'.triggered_local_event,
                                          [c \in Codes |-> 0])
       ]_vars

\* every code of the holdings has a current price
Priced(stocks) == DOMAIN stocks \subseteq DOMAIN stock_prices

\* C32: after a first-run initialisation with a non-empty catalog every code
\* held in a portfolio, stored or in the hands of a handler, has a current
\* price, every catalog stock has one, and no sell ends with UnknownStock.
C32_HeldCodesHavePrice ==
    /\ Codes # {} /\ Codes \subseteq DOMAIN stock_prices
    /\ \A id \in DOMAIN files : Priced(files[id].stocks)
    /\ \A t \in TaskIds :
          /\ Priced(tasks[t].portfolio.stocks)
          /\ tasks[t].kind = "sell" => tasks[t].reply # "UnknownStock"

\* a share bought before a tick is sold after it
C32_Witness ==
    /\ ticks = 1 /\ ticker.pc = "sleep"
    /\ \E t \in TaskIds :
          /\ tasks[t].kind = "sell" /\ tasks[t].reply = "SellOK"
          /\ tasks[t].held_amount = 1
          /\ tasks[t].code \in DOMAIN stock_prices

\* the ticker leaves push_news_to_groups, not by a cancellation
PushLeft ==
    /\ ticker.pc \in {"push", "pushSleep"}
    /\ ticker'.pc \notin {"push", "pushSleep", "cancelled"}

\* C33: a push attempts the delivery to every group that was playing when
\* it started, also when a join registers a group during the push: the push
\* is left only after the last of those groups, for the wait for the next
\* tick and never for the cooldown.
C33_JoinDoesNotAbortPush ==
    [][ PushLeft => /\ ticker.pending = {}
                    /\ ticker'.pc = "sleep" ]_vars

\* terminate() has returned: the snapshot of the shutdown is written
ShutdownSaved == \E t \in TaskIds : tasks[t].pc = "terminated"

\* the number of ticks whose prices the snapshot holds: every committed tick
\* added one price to the history of every stock (below the trim length)
TicksInPrices(snapshot, c) == Len(snapshot.price_history[c]) - 1

\* C35: the snapshot saved at shutdown is the state as of a completed tick:
\* its prices and price history stand at the same number of ticks as its
\* active events, which steps 1-3 of every tick begun have expired,
\* decremented and triggered.
C35_SnapshotOfCompletedTick ==
    ShutdownSaved =>
       /\ game_state_file.state = "data"
       /\ game_state_file.active_global_events = active_global_events
       /\ \A c \in Codes :
             /\ TicksInPrices(game_state_file, c) = ticks
             /\ game_state_file.prices[c]
                   = game_state_file.price_history[c][Len(game_state_file.price_history[c])]

====
